---- MODULE Spec2Model ----
(***************************************************************************)
(* State-machine model of the VM context manager (VMContextManager) and    *)
(* the execution service (VMExecutionService) of node-vm-mcp.              *)
(*                                                                         *)
(* Conventions                                                             *)
(*  - ids, names, keys and values are strings; JavaScript `undefined` is   *)
(*    the sentinel Undefined.                                              *)
(*  - messages are sequences of words; String.prototype.includes(w) is     *)
(*    membership of the word w in the sequence.                            *)
(*  - instants and durations are small integers (one unit = one clock      *)
(*    tick); heap samples are in MB.                                       *)
(***************************************************************************)
EXTENDS FiniteSets, Integers, Sequences, TLC

VARIABLES
  contexts,   \* VMContextManager.contexts: the Map, as a sequence in insertion order
  config,     \* VMServerConfig switches (fixed at construction)
  now,        \* Date.now()
  procs,      \* runScript calls: one record per request slot, in flight or just returned
  last        \* what the context-manager call made in the latest step returned

vars == <<contexts, config, now, procs, last>>

----------------------------------------------------------------------------
(* Bounds of the model *)

MaxTime == 2        \* the clock stops advancing here
MaxExec == 2        \* runs are not started against a context that was run this often
NumUserIds == 1     \* number of caller-chosen context ids

(* VMServerConfig: loadConfig reads these from the environment (DEFAULT_TIMEOUT,    *)
(* MAX_TIMEOUT, MAX_CONTEXTS, MAX_MEMORY_MB); the model runs a small configuration. *)
defaultTimeout == 1
maxTimeout == 2
maxContexts == 2
maxMemoryMB == 2

(* Idle threshold of the sweep (30 minutes in the source), in clock ticks *)
MAX_IDLE_TIME == 1

----------------------------------------------------------------------------
(* Values *)

Undefined == "<undefined>"

UserIdName == <<"a", "b", "c", "d">>
UserIds == {UserIdName[i] : i \in 1..NumUserIds}
GenId(i) == "ctx_" \o ToString(i)

\* The ids callers name in their requests
RequestIds == UserIds

Procs == {"r1"}

Includes(message, word) == \E i \in 1..Len(message) : message[i] = word

----------------------------------------------------------------------------
(* src/utils/errors.ts *)

NoError == [name |-> "none"]

VMError(name, message, code, statusCode, contextId, executionTime, details) ==
  [name |-> name, message |-> message, code |-> code, statusCode |-> statusCode,
   contextId |-> contextId, executionTime |-> executionTime, details |-> details]

VMTimeoutError(timeout, contextId) ==
  VMError("VMTimeoutError", <<"Execution", "timed", "out", "after", ToString(timeout), "ms">>,
          "VM_TIMEOUT", 408, contextId, -1, Undefined)

\* Mutant of VMContextError: the status code argument is not passed on, every
\* context error has the default status.
VMContextErrorDefaultStatus(message, contextId, statusCode, details) ==
  VMError("VMContextError", message, "VM_CONTEXT_ERROR", 400, contextId, -1, details)

VMContextError(message, contextId, statusCode, details) ==
  VMError("VMContextError", message, "VM_CONTEXT_ERROR", statusCode, contextId, -1, details)

VMExecutionError(message, contextId, executionTime, details) ==
  VMError("VMExecutionError", message, "VM_EXECUTION_ERROR", 500, contextId, executionTime, details)

VMSecurityError(message, contextId, details) ==
  VMError("VMSecurityError", message, "VM_SECURITY_ERROR", 403, contextId, -1, details)

VMMemoryError(message, contextId, memoryUsage) ==
  VMError("VMMemoryError", message, "VM_MEMORY_ERROR", 507, contextId, -1, ToString(memoryUsage))

success(data) == [success |-> TRUE, data |-> data]

failure(error) == [success |-> FALSE, error |-> error]

----------------------------------------------------------------------------
(* VMContextManager: templates and namespace composition *)

EmptyGlobals == [k \in {} |-> Undefined]

TemplateNames == {"console", "timers", "crypto", "buffer", "url", "process"}

TemplateKeys(template) ==
  CASE template = "console" -> {"console"}
    [] template = "timers" -> {"setTimeout", "setInterval", "clearTimeout",
                                "clearInterval", "setImmediate", "clearImmediate"}
    [] template = "crypto" -> {"crypto"}
    [] template = "buffer" -> {"Buffer", "TextEncoder", "TextDecoder"}
    [] template = "url" -> {"URL", "URLSearchParams"}
    [] template = "process" -> {"process"}
    [] OTHER -> {}

\* The binding a template supplies for a key is the template's own (shared) object.
GLOBAL_TEMPLATES(template) ==
  [k \in TemplateKeys(template) |-> "tpl:" \o template \o "." \o k]

\* Object.assign(target, source) for a source held as a function: source wins.
ObjectAssign(target, source) == source @@ target

\* Mutant of AssignEntries: properties the target already has are not overwritten.
RECURSIVE AssignEntriesKeepTarget(_, _)
AssignEntriesKeepTarget(target, entries) ==
  IF entries = <<>> THEN target
  ELSE AssignEntriesKeepTarget(target @@ (entries[1][1] :> entries[1][2]), Tail(entries))

\* Object.assign(target, source) for a source held as <<key, value>> entries in
\* property order: later entries win.
RECURSIVE AssignEntries(_, _)
AssignEntries(target, entries) ==
  IF entries = <<>> THEN target
  ELSE AssignEntries((entries[1][1] :> entries[1][2]) @@ target, Tail(entries))

\* Mutant of dangerousKeys: require is not on the list.
dangerousKeysWithoutRequire ==
  <<"module", "exports", "__dirname", "__filename",
    "global", "globalThis", "process", "Buffer">>

dangerousKeys ==
  <<"require", "module", "exports", "__dirname", "__filename",
    "global", "globalThis", "process", "Buffer">>

\* Object.keys of an object held as entries
ObjectKeys(entries) == [i \in 1..Len(entries) |-> entries[i][1]]

\* Mutant of validateGlobals: no key is refused.
validateGlobalsNone(globals) == NoError

\* validateGlobals: the VMSecurityError thrown for the first dangerous key, or NoError.
validateGlobals(globals) ==
  LET keys == ObjectKeys(globals)
      bad == SelectSeq(keys, LAMBDA k : Includes(dangerousKeys, k))
  IN IF Len(bad) > 0
       THEN VMSecurityError(<<"Dangerous", "global", "key", bad[1], "is", "not", "allowed">>,
                            Undefined, bad[1])
       ELSE NoError

RECURSIVE AssignTemplates(_, _)
AssignTemplates(globals, templates) ==
  IF templates = <<>> THEN globals
  ELSE AssignTemplates(
         IF Head(templates) \in TemplateNames
           THEN ObjectAssign(globals, GLOBAL_TEMPLATES(Head(templates)))
           ELSE globals,
         Tail(templates))

\* obj[key] of an object held as a record: Undefined when the property is absent.
Prop(obj, key) == IF key \in DOMAIN obj THEN obj[key] ELSE Undefined

\* buildGlobals: [thrown |-> error or NoError, globals |-> the composed namespace]
buildGlobals(options) ==
  LET fromTemplates ==
        IF "globalTemplates" \in DOMAIN options
          THEN AssignTemplates(EmptyGlobals, options.globalTemplates)
          ELSE EmptyGlobals
      thrown ==
        IF "globals" \in DOMAIN options THEN validateGlobals(options.globals) ELSE NoError
  IN IF thrown # NoError
       THEN [thrown |-> thrown, globals |-> fromTemplates]
     ELSE IF "globals" \in DOMAIN options
       THEN [thrown |-> NoError, globals |-> AssignEntries(fromTemplates, options.globals)]
     ELSE [thrown |-> NoError, globals |-> fromTemplates]

----------------------------------------------------------------------------
(* VMContextManager: the registry, as functions of the Map *)

Has(ctxs, id) == \E i \in DOMAIN ctxs : ctxs[i].id = id

IndexOf(ctxs, id) == CHOOSE i \in DOMAIN ctxs : ctxs[i].id = id

Get(ctxs, id) == ctxs[IndexOf(ctxs, id)]

\* Map.delete
Delete(ctxs, id) == SelectSeq(ctxs, LAMBDA c : c.id # id)

ExistsMessage(id) == <<"Context", id, "already", "exists">>

LimitMessage ==
  <<"Maximum", "number", "of", "contexts", "(" \o ToString(maxContexts) \o ")", "reached">>

NotFoundMessage(id) == <<"Context", id, "not", "found">>

\* Mutant of AtCapacity: the limit is compared with > instead of >=.
AtCapacityOffByOne(ctxs) == Len(ctxs) > maxContexts

\* createContext: `this.contexts.size >= this.config.maxContexts`
AtCapacity(ctxs) == Len(ctxs) >= maxContexts

\* Mutant of NewContext: a context is stored as if it had been run in once.
NewContextCounted(contextId, options, globals, t) ==
  [id |-> contextId, name |-> Prop(options, "name"), globals |-> globals,
   createdAt |-> t, lastUsed |-> t, executionCount |-> 1, memoryUsage |-> -1,
   options |-> options]

\* The VMContext createContext stores.
NewContext(contextId, options, globals, t) ==
  [id |-> contextId, name |-> Prop(options, "name"), globals |-> globals,
   createdAt |-> t, lastUsed |-> t, executionCount |-> 0, memoryUsage |-> -1,
   options |-> options]

\* Mutant of createContext: Map.set without the `has` check, so that a create of a
\* live id replaces the stored context.
createContextReplacing(ctxs, contextId, options, t) ==
  LET vmContext == NewContext(contextId, options, buildGlobals(options).globals, t)
  IN [result |-> success(vmContext),
      contexts |-> IF Has(ctxs, contextId)
                     THEN [ctxs EXCEPT ![IndexOf(ctxs, contextId)] = vmContext]
                     ELSE Append(ctxs, vmContext)]

\* Mutant of createContext: the capacity is tested after the context is stored, so
\* that a create rejected at capacity leaves its context in the Map.
createContextStoreFirst(ctxs, contextId, options, t) ==
  IF Has(ctxs, contextId)
    THEN [result |-> failure(VMContextError(ExistsMessage(contextId), contextId, 400, Undefined)),
          contexts |-> ctxs]
  ELSE LET built == buildGlobals(options)
       IN IF built.thrown # NoError
            THEN [result |-> failure(VMContextError(
                               <<"Failed", "to", "create", "context:">> \o built.thrown.message,
                               contextId, 500, built.thrown.name)),
                  contexts |-> ctxs]
            ELSE LET vmContext == NewContext(contextId, options, built.globals, t)
                 IN IF AtCapacity(ctxs)
                      THEN [result |-> failure(VMContextError(LimitMessage, contextId, 400, Undefined)),
                            contexts |-> Append(ctxs, vmContext)]
                      ELSE [result |-> success(vmContext),
                            contexts |-> Append(ctxs, vmContext)]

\* createContext: the Result and the Map afterwards.
createContext(ctxs, contextId, options, t) ==
  IF Has(ctxs, contextId)
    THEN [result |-> failure(VMContextError(ExistsMessage(contextId), contextId, 400, Undefined)),
          contexts |-> ctxs]
  ELSE IF AtCapacity(ctxs)
    THEN [result |-> failure(VMContextError(LimitMessage, contextId, 400, Undefined)),
          contexts |-> ctxs]
  ELSE LET built == buildGlobals(options)
       IN IF built.thrown # NoError
            THEN [result |-> failure(VMContextError(
                               <<"Failed", "to", "create", "context:">> \o built.thrown.message,
                               contextId, 500, built.thrown.name)),
                  contexts |-> ctxs]
            ELSE LET vmContext == NewContext(contextId, options, built.globals, t)
                 IN [result |-> success(vmContext),
                     contexts |-> Append(ctxs, vmContext)]

\* Mutant of getContext: an id that is not live gets a context made for it.
getContextOrCreate(ctxs, contextId, t) ==
  IF ~Has(ctxs, contextId)
    THEN LET vmContext == NewContext(contextId, EmptyGlobals, EmptyGlobals, t)
         IN [result |-> success(vmContext), contexts |-> Append(ctxs, vmContext)]
    ELSE LET i == IndexOf(ctxs, contextId)
             touched == [ctxs EXCEPT ![i].lastUsed = t]
         IN [result |-> success(touched[i]), contexts |-> touched]

\* Mutant of getContext: lastUsed is set back to the creation instant.
getContextStale(ctxs, contextId, t) ==
  IF ~Has(ctxs, contextId)
    THEN [result |-> failure(VMContextError(NotFoundMessage(contextId), contextId, 404, Undefined)),
          contexts |-> ctxs]
    ELSE LET i == IndexOf(ctxs, contextId)
             touched == [ctxs EXCEPT ![i].lastUsed = ctxs[i].createdAt]
         IN [result |-> success(touched[i]), contexts |-> touched]

\* Mutant of getContext: a fetch counts as an execution.
getContextCounting(ctxs, contextId, t) ==
  IF ~Has(ctxs, contextId)
    THEN [result |-> failure(VMContextError(NotFoundMessage(contextId), contextId, 404, Undefined)),
          contexts |-> ctxs]
    ELSE LET i == IndexOf(ctxs, contextId)
             touched == [ctxs EXCEPT ![i].lastUsed = t,
                                     ![i].executionCount = @ + 1]
         IN [result |-> success(touched[i]), contexts |-> touched]

\* getContext: touches lastUsed of a live context.
getContext(ctxs, contextId, t) ==
  IF ~Has(ctxs, contextId)
    THEN [result |-> failure(VMContextError(NotFoundMessage(contextId), contextId, 404, Undefined)),
          contexts |-> ctxs]
    ELSE LET i == IndexOf(ctxs, contextId)
             touched == [ctxs EXCEPT ![i].lastUsed = t]
         IN [result |-> success(touched[i]), contexts |-> touched]

\* The VMContextInfo of a context; Object.keys(globals) is held as a set.
ContextInfo(context, globalKeys, options) ==
  [id |-> context.id, name |-> context.name, createdAt |-> context.createdAt,
   lastUsed |-> context.lastUsed, executionCount |-> context.executionCount,
   memoryUsage |-> context.memoryUsage, globalKeys |-> globalKeys, options |-> options]

\* Mutant of getContextInfo: the summary comes without the names of the globals.
getContextInfoBare(ctxs, contextId) ==
  IF ~Has(ctxs, contextId)
    THEN failure(VMContextError(NotFoundMessage(contextId), contextId, 404, Undefined))
    ELSE LET context == Get(ctxs, contextId)
         IN success(ContextInfo(context, {}, context.options))

\* getContextInfo: reads only.
getContextInfo(ctxs, contextId) ==
  IF ~Has(ctxs, contextId)
    THEN failure(VMContextError(NotFoundMessage(contextId), contextId, 404, Undefined))
    ELSE LET context == Get(ctxs, contextId)
         IN success(ContextInfo(context, DOMAIN context.globals, context.options))

\* Mutant of SortByLastUsedDesc: the entries are returned in Map order.
SortByLastUsedNot(infos) == infos

\* Array.prototype.sort((a, b) => b.lastUsed - a.lastUsed): a stable insertion sort.
RECURSIVE SortByLastUsedDesc(_)
SortByLastUsedDesc(infos) ==
  IF Len(infos) <= 1 THEN infos
  ELSE LET sorted == SortByLastUsedDesc(SubSeq(infos, 1, Len(infos) - 1))
           x == infos[Len(infos)]
           before == SelectSeq(sorted, LAMBDA y : y.lastUsed >= x.lastUsed)
           after == SelectSeq(sorted, LAMBDA y : y.lastUsed < x.lastUsed)
       IN before \o <<x>> \o after

\* Mutant of listContexts: the details are returned whatever includeDetails is.
listContextsDetailed(ctxs, includeDetails) ==
  SortByLastUsedDesc(
    [i \in 1..Len(ctxs) |->
       ContextInfo(ctxs[i], DOMAIN ctxs[i].globals, ctxs[i].options)])

listContexts(ctxs, includeDetails) ==
  SortByLastUsedDesc(
    [i \in 1..Len(ctxs) |->
       ContextInfo(ctxs[i],
                   IF includeDetails THEN DOMAIN ctxs[i].globals ELSE {},
                   IF includeDetails THEN ctxs[i].options ELSE EmptyGlobals)])

\* Mutant of destroyContext: the Map is cleared instead of one entry being deleted.
destroyContextClearing(ctxs, contextId) ==
  IF ~Has(ctxs, contextId)
    THEN [result |-> failure(VMContextError(NotFoundMessage(contextId), contextId, 404, Undefined)),
          contexts |-> ctxs]
    ELSE [result |-> success(TRUE), contexts |-> <<>>]

destroyContext(ctxs, contextId) ==
  IF ~Has(ctxs, contextId)
    THEN [result |-> failure(VMContextError(NotFoundMessage(contextId), contextId, 404, Undefined)),
          contexts |-> ctxs]
    ELSE [result |-> success(TRUE), contexts |-> Delete(ctxs, contextId)]

\* Mutant of updateContextUsage: lastUsed and memoryUsage are refreshed, the
\* execution count is not incremented.
updateContextUsageNoCount(ctxs, contextId, t, cfg, heapUsed) ==
  IF ~Has(ctxs, contextId) THEN ctxs
  ELSE LET i == IndexOf(ctxs, contextId)
       IN [ctxs EXCEPT ![i].lastUsed = t,
                       ![i].memoryUsage = IF cfg.enableMemoryMonitoring THEN heapUsed ELSE @]

\* Mutant of updateContextUsage: the count is written as one more than the count of
\* a context that has not been run in, whatever it is now.
updateContextUsageLost(ctxs, contextId, t, cfg, heapUsed) ==
  IF ~Has(ctxs, contextId) THEN ctxs
  ELSE LET i == IndexOf(ctxs, contextId)
       IN [ctxs EXCEPT ![i].lastUsed = t,
                       ![i].executionCount = 1,
                       ![i].memoryUsage = IF cfg.enableMemoryMonitoring THEN heapUsed ELSE @]

\* updateContextUsage: a no-op for an id that is not in the Map.
updateContextUsage(ctxs, contextId, t, cfg, heapUsed) ==
  IF ~Has(ctxs, contextId) THEN ctxs
  ELSE LET i == IndexOf(ctxs, contextId)
       IN [ctxs EXCEPT ![i].lastUsed = t,
                       ![i].executionCount = @ + 1,
                       ![i].memoryUsage = IF cfg.enableMemoryMonitoring THEN heapUsed ELSE @]

\* Mutant of generateContextId: the id is drawn once, without the retry loop.
generateContextIdNoRetry(ctxs) == {GenId(1)}

\* generateContextId: the retry loop returns an id that is not in the Map.  Ids are
\* only ever compared for equality, so the first unused one stands for the draw.
generateContextId(ctxs) ==
  LET unused == {i \in 1..(maxContexts + 1) : ~Has(ctxs, GenId(i))}
  IN {GenId(CHOOSE i \in unused : \A j \in unused : i <= j)}

\* Mutant of checkMemoryUsage: a heap at the ceiling is rejected too.
checkMemoryUsageAtCeiling(cfg, heapUsedMB) ==
  IF ~cfg.enableMemoryMonitoring THEN success(TRUE)
  ELSE IF heapUsedMB >= maxMemoryMB
    THEN failure(VMMemoryError(<<"Memory", "usage", "(" \o ToString(heapUsedMB) \o "MB)",
                                 "exceeds", "limit", "(" \o ToString(maxMemoryMB) \o "MB)">>,
                               Undefined, heapUsedMB))
  ELSE success(TRUE)

\* checkMemoryUsage for a heap sample (MB).
checkMemoryUsage(cfg, heapUsedMB) ==
  IF ~cfg.enableMemoryMonitoring THEN success(TRUE)
  ELSE IF heapUsedMB > maxMemoryMB
    THEN failure(VMMemoryError(<<"Memory", "usage", "(" \o ToString(heapUsedMB) \o "MB)",
                                 "exceeds", "limit", "(" \o ToString(maxMemoryMB) \o "MB)">>,
                               Undefined, heapUsedMB))
  ELSE success(TRUE)

\* Mutant of idleSweep: the callback finds nothing to delete.
idleSweepNothing(ctxs, t) == ctxs

\* Mutant of idleSweep: a context idle for exactly the threshold is deleted too.
idleSweepAtThreshold(ctxs, t) ==
  SelectSeq(ctxs, LAMBDA c : ~(t - c.lastUsed >= MAX_IDLE_TIME))

\* The body of the setInterval callback of setupCleanupInterval.
idleSweep(ctxs, t) == SelectSeq(ctxs, LAMBDA c : ~(t - c.lastUsed > MAX_IDLE_TIME))

----------------------------------------------------------------------------
(* Scripts: source text as a sequence of tokens, and what node's vm does with it *)

E_Add == <<"2", "+", "2">>
E_SetVar == <<"globalThis", ".", "testVar", "=", "'A'">>
E_ReadVar == <<"globalThis", ".", "testVar">>
E_Log == <<"console.log", "(", "'hi'", ")">>
S_Syntax == <<"const", "x", "=", ";">>
S_Loop == <<"while", "(", "true", ")", "{", "}">>
S_Throw == <<"throw", "new", "Error", "(", "'boom'", ")">>
S_Console ==
  <<"console.log", "(", "'a'", ")", ";", "console.error", "(", "'b'", ")", ";",
    "console.warn", "(", "'c'", ")", ";", "console.info", "(", "'d'", ")", ";",
    "console.log", "(", "'e'", ",", "'f'", ")">>

\* let timeout = 1; let timeout = 2   (a redeclaration: an early error of the compiler)
S_Redeclare == <<"let", "timeout", "=", "1", ";", "let", "timeout", "=", "2">>
\* throw new Error('timeout')
S_ThrowWord == <<"throw", "new", "Error", "(", "'timeout'", ")">>

\* require("fs")
E_Require == <<"require", "(", "'fs'", ")">>
\* eval("2 + 2")
E_Eval == <<"eval", "(", "'2 + 2'", ")">>
\* eval(require("fs"))
E_EvalRequire == <<"eval", "(", "require", "(", "'fs'", ")", ")">>
\* A script whose first line is a shebang: #!/usr/bin/env node, then 2 + 2
S_Shebang == <<"#!", "/usr/bin/env", "node", "\n", "2", "+", "2">>

Expressions == {E_Add, E_SetVar, E_ReadVar, E_Log}
Statements == {S_Loop, S_Throw, S_Console}
Codes == Expressions \cup Statements \cup {S_Syntax}
\* Scripts whose failure has a message with a word createVMError looks for.
WordStatements == {S_ThrowWord}
\* Expressions that name eval or require.
DynamicExpressions == {E_Require, E_Eval, E_EvalRequire}

\* The text after the first line of `code` (empty when there is one line only).
RECURSIVE AfterFirstLine(_)
AfterFirstLine(code) ==
  IF code = <<>> THEN <<>>
  ELSE IF Head(code) = "\n" THEN Tail(code)
  ELSE AfterFirstLine(Tail(code))

\* A value thrown in JavaScript: hostError is `error instanceof Error` as seen by the
\* service, vmTimeout is `error instanceof VMTimeoutError`, str is String(error).
Thrown(hostError, vmTimeout, message, str) ==
  [hostError |-> hostError, vmTimeout |-> vmTimeout, message |-> message, str |-> str]

NoThrown == [none |-> TRUE]

\* new vm.Script(code): the program, or the SyntaxError the compiler throws.
\* A parenthesised expression is an expression; a parenthesised statement is not.
RECURSIVE Compile(_)
Compile(code) ==
  IF code \in Expressions \cup Statements \cup WordStatements \cup DynamicExpressions
    THEN [ok |-> TRUE, program |-> code,
          isExpression |-> code \in Expressions \cup DynamicExpressions,
          thrown |-> NoThrown]
  ELSE IF code # <<>> /\ Head(code) \in {"#!", "//"} /\ AfterFirstLine(code) # <<>>
    THEN [Compile(AfterFirstLine(code)) EXCEPT !.isExpression = @ /\ Head(code) = "//"]
  ELSE IF Len(code) >= 3 /\ code[1] = "(" /\ code[Len(code)] = ")"
          /\ Compile(SubSeq(code, 2, Len(code) - 1)).isExpression
    THEN Compile(SubSeq(code, 2, Len(code) - 1))
  ELSE IF code = S_Redeclare
    THEN [ok |-> FALSE, program |-> <<>>, isExpression |-> FALSE,
          thrown |-> Thrown(TRUE, FALSE,
                            <<"Identifier", "'", "timeout", "'", "has", "already", "been",
                              "declared">>,
                            <<"SyntaxError:", "Identifier", "'", "timeout", "'", "has",
                              "already", "been", "declared">>)]
  ELSE [ok |-> FALSE, program |-> <<>>, isExpression |-> FALSE,
        thrown |-> Thrown(TRUE, FALSE, <<"Unexpected", "token">>,
                          <<"SyntaxError:", "Unexpected", "token">>)]

\* The console binding installed by setupConsoleCapture around the original one.
Shim(originalConsole) == "capture(" \o originalConsole \o ")"

\* script.runInContext(context) on a namespace: how the script ends ("return", "throw",
\* or "loop" when it never ends by itself), the namespace afterwards and the
\* console calls it made, each <<method, arguments>>, in the order it made them.
runInContext(program, globals) ==
  CASE program = E_Add ->
         [kind |-> "return", value |-> "4", thrown |-> NoThrown, globals |-> globals,
          calls |-> <<>>]
    [] program = E_SetVar ->
         [kind |-> "return", value |-> "'A'", thrown |-> NoThrown,
          globals |-> ("testVar" :> "'A'") @@ globals, calls |-> <<>>]
    [] program = E_ReadVar ->
         [kind |-> "return", value |-> Prop(globals, "testVar"), thrown |-> NoThrown,
          globals |-> globals, calls |-> <<>>]
    [] program = E_Log ->
         IF "console" \in DOMAIN globals
           THEN [kind |-> "return", value |-> Undefined, thrown |-> NoThrown,
                 globals |-> globals, calls |-> << <<"log", <<"hi">> >> >>]
           ELSE [kind |-> "throw", value |-> Undefined,
                 thrown |-> Thrown(FALSE, FALSE, <<"console", "is", "not", "defined">>,
                                   <<"ReferenceError:", "console", "is", "not", "defined">>),
                 globals |-> globals, calls |-> <<>>]
    [] program = S_Console ->
         IF "console" \in DOMAIN globals
           THEN [kind |-> "return", value |-> Undefined, thrown |-> NoThrown,
                 globals |-> globals,
                 calls |-> << <<"log", <<"a">> >>, <<"error", <<"b">> >>,
                              <<"warn", <<"c">> >>, <<"info", <<"d">> >>,
                              <<"log", <<"e", "f">> >> >>]
           ELSE [kind |-> "throw", value |-> Undefined,
                 thrown |-> Thrown(FALSE, FALSE, <<"console", "is", "not", "defined">>,
                                   <<"ReferenceError:", "console", "is", "not", "defined">>),
                 globals |-> globals, calls |-> <<>>]
    [] program = S_Throw ->
         [kind |-> "throw", value |-> Undefined,
          thrown |-> Thrown(FALSE, FALSE, <<"boom">>, <<"Error:", "boom">>),
          globals |-> globals, calls |-> <<>>]
    [] program \in {E_Require, E_EvalRequire} ->
         IF "require" \in DOMAIN globals
           THEN [kind |-> "return", value |-> globals["require"] \o "('fs')",
                 thrown |-> NoThrown, globals |-> globals, calls |-> <<>>]
           ELSE [kind |-> "throw", value |-> Undefined,
                 thrown |-> Thrown(FALSE, FALSE, <<"require", "is", "not", "defined">>,
                                   <<"ReferenceError:", "require", "is", "not", "defined">>),
                 globals |-> globals, calls |-> <<>>]
    [] program = E_Eval ->
         [kind |-> "return", value |-> "4", thrown |-> NoThrown, globals |-> globals,
          calls |-> <<>>]
    [] program = S_ThrowWord ->
         [kind |-> "throw", value |-> Undefined,
          thrown |-> Thrown(FALSE, FALSE, <<"timeout">>, <<"Error:", "timeout">>),
          globals |-> globals, calls |-> <<>>]
    [] OTHER ->
         [kind |-> "loop", value |-> Undefined, thrown |-> NoThrown, globals |-> globals,
          calls |-> <<>>]

\* The error script.runInContext throws when its `timeout` option expires.
EngineTimeout(timeout) ==
  Thrown(TRUE, FALSE,
         <<"Script", "execution", "timed", "out", "after", ToString(timeout) \o "ms">>,
         <<"Error:", "Script", "execution", "timed", "out", "after", ToString(timeout) \o "ms">>)

\* Mutant of EngineDeadline: runInContext is given no timeout.
EngineDeadlineNever(elapsed, timeout) == FALSE

\* Has the engine's own deadline expired for a script that has run for `elapsed`?
EngineDeadline(elapsed, timeout) == elapsed >= timeout

----------------------------------------------------------------------------
(* VMExecutionService *)

\* createVMError applied to a caught value
createVMError(error, contextId, executionTime) ==
  IF error.vmTimeout
    THEN error.vmError
  ELSE IF error.hostError
    THEN IF Includes(error.message, "timeout")
           THEN VMTimeoutError(defaultTimeout, contextId)
         ELSE IF Includes(error.message, "memory") \/ Includes(error.message, "heap")
           THEN VMMemoryError(<<"Memory", "error", "during", "execution:">> \o error.message,
                              contextId, -1)
         ELSE IF Includes(error.message, "security") \/ Includes(error.message, "permission")
           THEN VMSecurityError(<<"Security", "error", "during", "execution:">> \o error.message,
                                contextId, error.str)
         ELSE VMExecutionError(<<"Execution", "error:">> \o error.message,
                               contextId, executionTime, error.str)
  ELSE VMExecutionError(<<"Unknown", "execution", "error:">> \o error.str,
                        contextId, executionTime, error.str)

\* The regular expressions of validateCode, in the order of the array: the source
\* text of each, and what it looks for in a text held as tokens (white space may
\* stand between two tokens unless the second is ".").
dangerousPatterns ==
  << [source |-> "require\\s*\\(", kind |-> "call", word |-> "require"],
     [source |-> "import\\s+.*\\s+from", kind |-> "import", word |-> "import"],
     [source |-> "eval\\s*\\(", kind |-> "call", word |-> "eval"],
     [source |-> "Function\\s*\\(", kind |-> "call", word |-> "Function"],
     [source |-> "process\\.", kind |-> "member", word |-> "process"],
     [source |-> "global\\.", kind |-> "member", word |-> "global"],
     [source |-> "globalThis\\.", kind |-> "member", word |-> "globalThis"],
     [source |-> "__dirname", kind |-> "word", word |-> "__dirname"],
     [source |-> "__filename", kind |-> "word", word |-> "__filename"] >>

\* pattern.test(code)
PatternTest(pattern, code) ==
  CASE pattern.kind = "call" ->
         \E i \in 1..(Len(code) - 1) : code[i] = pattern.word /\ code[i + 1] = "("
    [] pattern.kind = "member" ->
         \E i \in 1..(Len(code) - 1) : code[i] = pattern.word /\ code[i + 1] = "."
    [] pattern.kind = "word" ->
         \E i \in 1..Len(code) : code[i] = pattern.word
    [] OTHER ->
         \E i \in 1..Len(code), j \in 1..Len(code) :
           /\ i < j /\ code[i] = "import" /\ code[j] = "from"
           /\ \A k \in i..j : code[k] # "\n"

DangerousMessage(source) ==
  <<"Code", "contains", "potentially", "dangerous", "pattern:", source>>

\* Mutant of validateCode: the loop does not stop at the first pattern that matches.
validateCodeLastMatch(code) ==
  LET hits == {i \in DOMAIN dangerousPatterns : PatternTest(dangerousPatterns[i], code)}
  IN IF hits = {} THEN success(TRUE)
     ELSE LET hit == CHOOSE i \in hits : \A j \in hits : j <= i
          IN failure(VMSecurityError(DangerousMessage(dangerousPatterns[hit].source),
                                     Undefined, dangerousPatterns[hit].source))

\* validateCode: the first pattern of the array that matches makes it fail.
validateCode(code) ==
  LET hits == {i \in DOMAIN dangerousPatterns : PatternTest(dangerousPatterns[i], code)}
  IN IF hits = {} THEN success(TRUE)
     ELSE LET hit == CHOOSE i \in hits : \A j \in hits : i <= j
          IN failure(VMSecurityError(DangerousMessage(dangerousPatterns[hit].source),
                                     Undefined, dangerousPatterns[hit].source))

\* preprocessCode: a first line that is a shebang becomes a line comment.
preprocessCode(code) ==
  IF code # <<>> /\ Head(code) = "#!" THEN <<"//">> \o code ELSE code

\* Mutant of EffectiveTimeout: the requested timeout is ignored.
EffectiveTimeoutDefaultOnly(options) ==
  IF defaultTimeout < maxTimeout THEN defaultTimeout ELSE maxTimeout

\* options.timeout || defaultTimeout, capped by maxTimeout
EffectiveTimeout(options) ==
  LET requested == IF "timeout" \in DOMAIN options /\ options.timeout # 0
                     THEN options.timeout ELSE defaultTimeout
  IN IF requested < maxTimeout THEN requested ELSE maxTimeout

\* The heap samples (MB) process.memoryUsage() returns to the pre-check: at the
\* ceiling, and above it.
HeapSamples == {maxMemoryMB, maxMemoryMB + 1}

\* The heap sample (MB) process.memoryUsage() returns after a run.
HeapAfter == {maxMemoryMB + 1}

NoResult == [none |-> TRUE]

NoCapture == [logs |-> <<>>, errors |-> <<>>, warns |-> <<>>, infos |-> <<>>]

Pending == [state |-> "pending", value |-> Undefined, thrown |-> NoThrown]

\* A request slot with no call in it.
IdleProc ==
  [pc |-> "idle", api |-> "none", code |-> <<>>, options |-> EmptyGlobals,
   contextId |-> Undefined, startTime |-> 0, created |-> NoResult,
   capture |-> NoCapture, program |-> <<>>, timeout |-> 0, elapsed |-> 0,
   timer |-> "unset", settled |-> Pending, result |-> NoResult]

\* The slot after the call has returned `result`.
Returned(pr, contextId, result) ==
  [IdleProc EXCEPT !.pc = "done", !.api = pr.api, !.code = pr.code,
                   !.options = pr.options, !.contextId = contextId, !.result = result]

\* formatConsoleArgs for string arguments: the arguments joined by single spaces.
RECURSIVE formatConsoleArgs(_)
formatConsoleArgs(args) ==
  IF args = <<>> THEN ""
  ELSE IF Len(args) = 1 THEN args[1]
  ELSE args[1] \o " " \o formatConsoleArgs(Tail(args))

\* What the shim's `method` pushes on its own list of the capture for `calls`.
Pushed(calls, method) ==
  LET mine == SelectSeq(calls, LAMBDA c : c[1] = method)
  IN [i \in 1..Len(mine) |-> formatConsoleArgs(mine[i][2])]

\* setupConsoleCapture: the namespace afterwards
setupConsoleCapture(cfg, globals) ==
  IF ~cfg.enableConsoleCapture THEN globals
  ELSE IF "console" \in DOMAIN globals
    THEN [globals EXCEPT !["console"] = Shim(@)]
  ELSE globals

\* Mutant of SetGlobals: every context is built on one shared global object.
SetGlobalsShared(ctxs, contextId, globals) ==
  [i \in DOMAIN ctxs |-> [ctxs[i] EXCEPT !.globals = globals]]

\* Mutant of SetGlobals: the script runs on a copy of the namespace, which is dropped.
SetGlobalsDropped(ctxs, contextId, globals) == ctxs

\* The Map after the global object of context `contextId` has become `globals`: the
\* contextified object is the one the registry holds.
SetGlobals(ctxs, contextId, globals) ==
  [ctxs EXCEPT ![IndexOf(ctxs, contextId)].globals = globals]

\* The payload of a failed run (the catch block of runScript).
FailedPayload(thrown, contextId, executionTime) ==
  [success |-> FALSE, result |-> Undefined,
   error |-> createVMError(thrown, contextId, executionTime),
   executionTime |-> executionTime, contextId |-> contextId,
   consoleOutput |-> <<>>, hasConsoleOutput |-> FALSE, memoryUsage |-> -1]

\* Mutant of Caught: the catch block hands the failure to the caller as a failed Result.
CaughtRethrown(thrown, contextId, executionTime) ==
  failure(createVMError(thrown, contextId, executionTime))

\* What runScript returns from its catch block.
Caught(thrown, contextId, executionTime) ==
  success(FailedPayload(thrown, contextId, executionTime))

\* Mutant of SucceededPayload: console lines and a heap sample are always reported.
SucceededPayloadUnconditional(cfg, value, contextId, executionTime, capture, heapUsed) ==
  [success |-> TRUE, result |-> value, error |-> NoError,
   executionTime |-> executionTime, contextId |-> contextId,
   consoleOutput |-> capture.logs, hasConsoleOutput |-> TRUE, memoryUsage |-> heapUsed]

\* The payload of a successful run.
SucceededPayload(cfg, value, contextId, executionTime, capture, heapUsed) ==
  [success |-> TRUE, result |-> value, error |-> NoError,
   executionTime |-> executionTime, contextId |-> contextId,
   consoleOutput |-> IF cfg.enableConsoleCapture THEN capture.logs ELSE <<>>,
   hasConsoleOutput |-> cfg.enableConsoleCapture,
   memoryUsage |-> IF cfg.enableMemoryMonitoring THEN heapUsed ELSE -1]

\* The slots as the next step finds them: a call that has returned leaves its slot.
Cleared == [p \in DOMAIN procs |-> IF procs[p].pc = "done" THEN IdleProc ELSE procs[p]]

NoReturn == <<"none", Undefined, NoResult>>

\* No script is occupying the single flow of control.
EventLoopFree == \A p \in DOMAIN procs : procs[p].pc # "running"

\* No call is in flight.
Quiet == \A p \in DOMAIN procs : procs[p].pc \in {"idle", "done"}

\* runScript lines 56-91, run without suspension on the Map `ctxs`: getContext, the
\* memory pre-check, console capture, compilation, and the start of executeWithTimeout.
Resolve(p, pr, ctxs) ==
  LET got == getContext(ctxs, pr.contextId, now)
  IN IF ~got.result.success
       THEN /\ contexts' = got.contexts
            /\ procs' = [Cleared EXCEPT ![p] = Returned(pr, pr.contextId, failure(got.result.error))]
     ELSE \E heapUsed \in HeapSamples :
       LET memoryCheck == checkMemoryUsage(config, heapUsed)
       IN IF ~memoryCheck.success
            THEN /\ contexts' = got.contexts
                 /\ procs' = [Cleared EXCEPT ![p] =
                                Returned(pr, pr.contextId, failure(memoryCheck.error))]
          ELSE LET captured == SetGlobals(got.contexts, pr.contextId,
                                          setupConsoleCapture(config, got.result.data.globals))
                   script == Compile(pr.code)
               IN IF ~script.ok
                    THEN \E heapAfter \in HeapAfter :
                           /\ contexts' = updateContextUsage(captured, pr.contextId, now,
                                                             config, heapAfter)
                           /\ procs' = [Cleared EXCEPT ![p] =
                                Returned(pr, pr.contextId,
                                  Caught(script.thrown, pr.contextId, now - pr.startTime))]
                    ELSE /\ contexts' = captured
                         /\ procs' = [Cleared EXCEPT ![p] =
                                [pr EXCEPT !.pc = "running", !.program = script.program,
                                           !.timeout = EffectiveTimeout(pr.options),
                                           !.elapsed = 0, !.timer = "armed"]]

\* !contextId for an id that is a string or undefined.
Falsy(contextId) == contextId \in {Undefined, ""}

\* A call of runScript (made directly, or by evaluateExpression: `api`), up to its
\* first await.
runScript(p, api, code, options) ==
  LET pr == [IdleProc EXCEPT !.api = api, !.code = code, !.options = options,
                             !.contextId = Prop(options, "contextId"),
                             !.startTime = now]
  IN /\ procs[p].pc \in {"idle", "done"}
     /\ EventLoopFree
     /\ now + EffectiveTimeout(options) <= MaxTime
     /\ ~Falsy(pr.contextId) /\ Has(contexts, pr.contextId)
          => Get(contexts, pr.contextId).executionCount < MaxExec
     /\ IF Falsy(pr.contextId)
          THEN \E id \in generateContextId(contexts) :
                 LET created == createContext(contexts, id,
                                              [globalTemplates |-> <<"console">>], now)
                 IN /\ contexts' = created.contexts
                    /\ procs' = [Cleared EXCEPT ![p] =
                                   [pr EXCEPT !.pc = "awaitCreate", !.contextId = id,
                                              !.created = created.result]]
          ELSE Resolve(p, pr, contexts)
     /\ UNCHANGED <<config, now>> /\ last' = NoReturn

\* Mutant of evaluateExpression: the expression is run as it is given.
evaluateExpressionBare(p, expression, options) ==
  runScript(p, "evaluateExpression", expression, options)

\* evaluateExpression: runScript on the parenthesised expression
evaluateExpression(p, expression, options) ==
  runScript(p, "evaluateExpression", <<"(">> \o expression \o <<")">>, options)

\* The payload runScriptSafe builds itself when validateCode fails.
RejectedPayload(error, options) ==
  [success |-> FALSE, result |-> Undefined, error |-> error,
   executionTime |-> 0,
   contextId |-> IF Prop(options, "contextId") \in {Undefined, ""}
                   THEN "unknown" ELSE options.contextId,
   consoleOutput |-> <<>>, hasConsoleOutput |-> FALSE, memoryUsage |-> -1]

\* runScriptSafe: validateCode, then runScript on the preprocessed code.
runScriptSafe(p, code, options) ==
  LET validation == validateCode(code)
  IN IF ~validation.success
       THEN /\ procs[p].pc \in {"idle", "done"}
            /\ EventLoopFree
            /\ procs' = [Cleared EXCEPT ![p] =
                 Returned([IdleProc EXCEPT !.api = "runScriptSafe", !.code = code,
                                           !.options = options],
                          RejectedPayload(validation.error, options).contextId,
                          success(RejectedPayload(validation.error, options)))]
            /\ UNCHANGED <<contexts, config, now>> /\ last' = NoReturn
       ELSE runScript(p, "runScriptSafe", preprocessCode(code), options)

\* runScript: the continuation after `await createContext(...)`.
runScriptAfterCreate(p) ==
  /\ procs[p].pc = "awaitCreate"
  /\ EventLoopFree
  /\ IF ~procs[p].created.success
       THEN /\ procs' = [Cleared EXCEPT ![p] =
                           Returned(procs[p], procs[p].contextId, failure(procs[p].created.error))]
            /\ contexts' = contexts
       ELSE Resolve(p, procs[p], contexts)
  /\ UNCHANGED <<config, now>> /\ last' = NoReturn

\* executeWithTimeout: the script runs inside the Promise executor; a script that
\* never ends is stopped by the engine's deadline.  The timer set before the run is
\* cleared when the run ends either way.
executeWithTimeout(p) ==
  /\ procs[p].pc = "running"
  /\ LET pr == procs[p]
         context == Get(contexts, pr.contextId)
         run == runInContext(pr.program, context.globals)
     IN IF run.kind = "loop" /\ ~EngineDeadline(pr.elapsed, pr.timeout)
          THEN /\ now < MaxTime
               /\ procs' = [Cleared EXCEPT ![p].elapsed = @ + 1]
               /\ now' = now + 1
               /\ contexts' = contexts
        ELSE IF run.kind = "loop"
          THEN /\ procs' = [Cleared EXCEPT ![p].pc = "awaitExec", ![p].timer = "cleared",
                                         ![p].settled = [state |-> "rejected",
                                                         value |-> Undefined,
                                                         thrown |-> EngineTimeout(pr.timeout)]]
               /\ UNCHANGED <<now, contexts>>
        ELSE /\ contexts' = SetGlobals(contexts, pr.contextId, run.globals)
             /\ procs' = [Cleared EXCEPT
                  ![p].pc = "awaitExec", ![p].timer = "cleared",
                  ![p].capture = IF config.enableConsoleCapture
                                   THEN [logs |-> @.logs \o Pushed(run.calls, "log"),
                                         errors |-> @.errors \o Pushed(run.calls, "error"),
                                         warns |-> @.warns \o Pushed(run.calls, "warn"),
                                         infos |-> @.infos \o Pushed(run.calls, "info")]
                                   ELSE @,
                  ![p].settled = [state |-> IF run.kind = "return" THEN "resolved"
                                                                     ELSE "rejected",
                                  value |-> run.value, thrown |-> run.thrown]]
             /\ now' = now
  /\ UNCHANGED config /\ last' = NoReturn

\* The VMTimeoutError the callback of the timer rejects the promise with.
DeadlineError(timeout) ==
  ("vmError" :> VMTimeoutError(timeout, Undefined))
    @@ Thrown(TRUE, TRUE,
              <<"Execution", "timed", "out", "after", ToString(timeout), "ms">>,
              <<"VMTimeoutError:", "Execution", "timed", "out", "after",
                ToString(timeout), "ms">>)

\* The callback given to setTimeout in executeWithTimeout.  A timer's callback is a
\* task of the event loop: it runs only while no script is running, and only if the
\* timer has not been cleared.
timeoutCallback(p) ==
  /\ procs[p].timer = "armed"
  /\ EventLoopFree
  /\ procs' = [Cleared EXCEPT ![p].timer = "fired",
                              ![p].settled = IF @.state = "pending"
                                               THEN [state |-> "rejected", value |-> Undefined,
                                                     thrown |-> DeadlineError(procs[p].timeout)]
                                               ELSE @]
  /\ UNCHANGED <<contexts, config, now>> /\ last' = NoReturn

\* runScript: the continuation after `await executeWithTimeout(...)`: lines 93-112
\* when the promise resolved, the catch block (lines 113-129) when it rejected.
runScriptAfterExecute(p) ==
  /\ procs[p].pc = "awaitExec"
  /\ EventLoopFree
  /\ \E heapUsed \in HeapAfter, heapResult \in HeapAfter :
       LET pr == procs[p]
           executionTime == now - pr.startTime
       IN /\ contexts' = updateContextUsage(contexts, pr.contextId, now, config, heapUsed)
          /\ procs' = [Cleared EXCEPT ![p] =
               Returned(pr, pr.contextId,
                 IF pr.settled.state = "resolved"
                   THEN success(SucceededPayload(config, pr.settled.value, pr.contextId,
                                                 executionTime, pr.capture, heapResult))
                   ELSE Caught(pr.settled.thrown, pr.contextId, executionTime))]
  /\ UNCHANGED <<config, now>> /\ last' = NoReturn

----------------------------------------------------------------------------
(* Requests to the context manager, the sweep timer and the clock *)

Returns(op, id, result) == <<op, id, result>>

CreateRequest(id, options) ==
  LET created == createContext(contexts, id, options, now)
  IN /\ contexts' = created.contexts
     /\ last' = Returns("create", id, created.result)
     /\ UNCHANGED <<config, now>> /\ procs' = Cleared

GetRequest(id) ==
  LET got == getContext(contexts, id, now)
  IN /\ contexts' = got.contexts
     /\ last' = Returns("get", id, got.result)
     /\ UNCHANGED <<config, now>> /\ procs' = Cleared

InfoRequest(id) ==
  /\ last' = Returns("info", id, getContextInfo(contexts, id))
  /\ UNCHANGED <<contexts, config, now>> /\ procs' = Cleared

ListRequest(includeDetails) ==
  /\ last' = Returns("list", Undefined, listContexts(contexts, includeDetails))
  /\ UNCHANGED <<contexts, config, now>> /\ procs' = Cleared

DestroyRequest(id) ==
  LET destroyed == destroyContext(contexts, id)
  IN /\ contexts' = destroyed.contexts
     /\ last' = Returns("destroy", id, destroyed.result)
     /\ UNCHANGED <<config, now>> /\ procs' = Cleared

\* cleanup(): contexts.clear()
cleanup ==
  /\ contexts # <<>>
  /\ contexts' = <<>>
  /\ UNCHANGED <<config, now>> /\ procs' = Cleared /\ last' = NoReturn

\* The ids the callback logs as cleaned up, in Map order.
Evicted(before, after) ==
  LET gone == SelectSeq(before, LAMBDA c : ~Has(after, c.id))
  IN [i \in 1..Len(gone) |-> gone[i].id]

\* One firing of the interval timer of setupCleanupInterval.
setupCleanupInterval ==
  /\ contexts' = idleSweep(contexts, now)
  /\ contexts' # contexts
  /\ last' = Returns("sweep", Undefined, Evicted(contexts, contexts'))
  /\ UNCHANGED <<config, now>> /\ procs' = Cleared

\* Time passes while no script is running.
Tick ==
  /\ now < MaxTime
  /\ now' = now + 1
  /\ UNCHANGED <<contexts, config>> /\ procs' = Cleared /\ last' = NoReturn

----------------------------------------------------------------------------
(* Inputs *)

NoOptions == [k \in {} |-> Undefined]

CreateOptions ==
  { NoOptions,
    [globalTemplates |-> <<"console">>],
    [globalTemplates |-> <<"console">>, globals |-> << <<"x", "1">>, <<"process", "1">> >>] }

Timeouts == {maxTimeout, maxTimeout + 1}

\* The context a run names (or none), without and with a requested timeout.
TargetOptions == {NoOptions} \cup {[contextId |-> id] : id \in RequestIds}

TimedOptions ==
  {[timeout |-> t] : t \in Timeouts}
    \cup {[contextId |-> id, timeout |-> t] : id \in RequestIds, t \in Timeouts}

\* <<code, options>> of the run requests; a requested timeout only shows on a script
\* that does not end by itself.
RunInputs ==
  (Codes \X TargetOptions) \cup ({S_Loop} \X TimedOptions)

\* <<expression, options>> of the evaluate requests.
EvaluateInputs ==
  {E_Add, E_ReadVar, S_Throw} \X TargetOptions

----------------------------------------------------------------------------
(* The system: requests are served one at a time; the sweep timer and the clock  *)
(* act between requests.                                                        *)

Init ==
  /\ contexts = <<>>
  /\ config \in [enableConsoleCapture : BOOLEAN, enableMemoryMonitoring : BOOLEAN]
  /\ now = 0
  /\ procs = [p \in Procs |-> IdleProc]
  /\ last = NoReturn

ManagerStep ==
  \/ \E id \in RequestIds, options \in CreateOptions : CreateRequest(id, options)
  \/ \E id \in RequestIds : GetRequest(id)
  \/ \E id \in RequestIds : InfoRequest(id)
  \/ \E includeDetails \in BOOLEAN : ListRequest(includeDetails)
  \/ \E id \in RequestIds : DestroyRequest(id)
  \/ cleanup
  \/ setupCleanupInterval
  \/ Tick

RunStep ==
  \/ \E p \in DOMAIN procs, input \in RunInputs :
       runScript(p, "runScript", input[1], input[2])
  \/ \E p \in DOMAIN procs, input \in EvaluateInputs :
       evaluateExpression(p, input[1], input[2])
  \/ \E p \in DOMAIN procs : runScriptAfterCreate(p)
  \/ \E p \in DOMAIN procs : executeWithTimeout(p)
  \/ \E p \in DOMAIN procs : runScriptAfterExecute(p)

Next ==
  \/ Quiet /\ ManagerStep
  \/ RunStep

Spec == Init /\ [][Next]_vars

\* A call in flight is resumed: the engine runs the script it was given, and the
\* continuation of a settled promise is run.
Resume ==
  \E p \in DOMAIN procs :
    runScriptAfterCreate(p) \/ executeWithTimeout(p) \/ runScriptAfterExecute(p)

FairSpec == Spec /\ WF_vars(Resume)

----------------------------------------------------------------------------
(* The registry alone, created with every combination of templates and custom *)
(* globals of BuildOptions.                                                  *)

BuildTemplates == {"console", "timers", "buffer", "process"}

TemplateLists ==
  {<<>>} \cup {<<t>> : t \in BuildTemplates}
         \cup {<<t1, t2>> : t1 \in BuildTemplates, t2 \in BuildTemplates}

CustomGlobals ==
  { << <<"x", "1">> >>,
    << <<"console", "mine">> >>,
    << <<"setTimeout", "mine">>, <<"x", "1">> >>,
    << <<"x", "1">>, <<"process", "mine">> >>,
    << <<"Buffer", "mine">>, <<"require", "mine">> >>,
    << >> }

BuildOptions ==
  {NoOptions}
    \cup {[globalTemplates |-> t] : t \in TemplateLists}
    \cup {[globals |-> g] : g \in CustomGlobals}
    \cup {[globalTemplates |-> t, globals |-> g] : t \in TemplateLists, g \in CustomGlobals}

BuildNext ==
  \/ \E id \in RequestIds, options \in BuildOptions : CreateRequest(id, options)
  \/ \E id \in RequestIds : GetRequest(id)
  \/ \E id \in RequestIds : DestroyRequest(id)

BuildSpec == Init /\ [][BuildNext]_vars

\* Runs of scripts that fail, or that name eval or require, against contexts created
\* before or for the run; a client may ask for a context with a global named require.
ClassifyInputs ==
  {S_Syntax, S_Redeclare, S_Throw, S_ThrowWord, S_Loop, E_Require, E_Eval} \X TargetOptions

ClassifyCreateOptions ==
  CreateOptions \cup {[globals |-> << <<"require", "mine">> >>]}

ClassifyNext ==
  \/ Quiet /\ \E id \in RequestIds, options \in ClassifyCreateOptions :
                CreateRequest(id, options)
  \/ Quiet /\ Tick
  \/ \E p \in DOMAIN procs, input \in ClassifyInputs :
       runScript(p, "runScript", input[1], input[2])
  \/ \E p \in DOMAIN procs : runScriptAfterCreate(p)
  \/ \E p \in DOMAIN procs : executeWithTimeout(p)
  \/ \E p \in DOMAIN procs : runScriptAfterExecute(p)

ClassifySpec == Init /\ [][ClassifyNext]_vars

\* Runs through runScriptSafe, against contexts created before or for the run.
ScanInputs ==
  {E_Add, E_SetVar, E_Require, E_Eval, E_EvalRequire, S_Shebang, S_Throw} \X TargetOptions

ScanNext ==
  \/ Quiet /\ \E id \in RequestIds, options \in CreateOptions : CreateRequest(id, options)
  \/ Quiet /\ Tick
  \/ \E p \in DOMAIN procs, input \in ScanInputs : runScriptSafe(p, input[1], input[2])
  \/ \E p \in DOMAIN procs : runScriptAfterCreate(p)
  \/ \E p \in DOMAIN procs : executeWithTimeout(p)
  \/ \E p \in DOMAIN procs : runScriptAfterExecute(p)

ScanSpec == Init /\ [][ScanNext]_vars

\* Runs naming a context, none, or the empty string (the schema of run's options
\* takes any string), among creates and destroys of the named contexts.
EmptyIdOptions == {[contextId |-> ""]}

TargetInputs == {E_Add, S_Throw} \X (TargetOptions \cup EmptyIdOptions)

TargetNext ==
  \/ Quiet /\ \E id \in RequestIds, options \in CreateOptions : CreateRequest(id, options)
  \/ Quiet /\ \E id \in RequestIds : DestroyRequest(id)
  \/ Quiet /\ Tick
  \/ \E p \in DOMAIN procs, input \in TargetInputs :
       runScript(p, "runScript", input[1], input[2])
  \/ \E p \in DOMAIN procs : runScriptAfterCreate(p)
  \/ \E p \in DOMAIN procs : executeWithTimeout(p)
  \/ \E p \in DOMAIN procs : runScriptAfterExecute(p)

TargetSpec == Init /\ [][TargetNext]_vars

\* Several calls in flight: requests that arrive together are started one after the
\* other, each running up to its first await, and their continuations are run in any
\* order; requests to the manager are served between them.  A client may name its
\* contexts as it likes, an id of the generated form included.
ConcurrentProcs == {"r1", "r2"}

ConcurrentIds == UserIds \cup {GenId(1)}

ConcurrentInputs == {E_Add, S_Throw} \X TargetOptions

ConcurrentInit ==
  /\ contexts = <<>>
  /\ config \in [enableConsoleCapture : BOOLEAN, enableMemoryMonitoring : BOOLEAN]
  /\ now = 0
  /\ procs = [p \in ConcurrentProcs |-> IdleProc]
  /\ last = NoReturn

ConcurrentNext ==
  \/ EventLoopFree /\ \E id \in ConcurrentIds : CreateRequest(id, NoOptions)
  \/ EventLoopFree /\ \E id \in ConcurrentIds : DestroyRequest(id)
  \/ \E p \in DOMAIN procs, input \in ConcurrentInputs :
       runScript(p, "runScript", input[1], input[2])
  \/ \E p \in DOMAIN procs : runScriptAfterCreate(p)
  \/ \E p \in DOMAIN procs : executeWithTimeout(p)
  \/ \E p \in DOMAIN procs : runScriptAfterExecute(p)

ConcurrentSpec == ConcurrentInit /\ [][ConcurrentNext]_vars

\* The interval timer keeps firing: its callback runs whenever the event loop is free
\* of calls, again and again.
SweepSpec == Spec /\ WF_vars(Resume) /\ SF_vars(Quiet /\ setupCleanupInterval)

----------------------------------------------------------------------------
(* Claims *)

\* The calls that have just returned, and what they were asked.
Done(p) == procs[p].pc = "done"

Explicit(p) == "contextId" \in DOMAIN procs[p].options

ExecutionCodes == {"VM_TIMEOUT", "VM_MEMORY_ERROR", "VM_SECURITY_ERROR", "VM_EXECUTION_ERROR"}

\* C1 as stated: every call of run or evaluate returns an outer Result with
\* success = TRUE, whatever the context id, the occupancy of the registry and the
\* outcome of the memory pre-check.
C1_OuterResultAlwaysSucceeds ==
  \A p \in DOMAIN procs : Done(p) => procs[p].result.success

\* C1 amended: a call that resolves its context and passes the memory pre-check
\* returns an outer Result with success = TRUE, and a failure of the script is inside
\* the payload (success = FALSE with a classified error); the outer Result fails in
\* exactly three cases, each carrying the manager's error: the explicit id is not
\* live, the ephemeral create is refused because the registry is full, or the memory
\* pre-check fails.
C1_OuterResultSucceedsOnceAdmitted ==
  \A p \in DOMAIN procs :
    Done(p) =>
      LET pr == procs[p]
          r == pr.result
      IN IF r.success
           THEN /\ Has(contexts, pr.contextId)
                /\ r.data.contextId = pr.contextId
                /\ r.data.success \/ r.data.error.code \in ExecutionCodes
           ELSE \/ /\ Explicit(p)
                   /\ ~Has(contexts, pr.contextId)
                   /\ r.error = VMContextError(NotFoundMessage(pr.contextId), pr.contextId,
                                               404, Undefined)
                \/ /\ ~Explicit(p)
                   /\ ~Has(contexts, pr.contextId)
                   /\ Len(contexts) >= maxContexts
                   /\ r.error = VMContextError(LimitMessage, pr.contextId, 400, Undefined)
                \/ /\ Has(contexts, pr.contextId)
                   /\ config.enableMemoryMonitoring
                   /\ r.error.code = "VM_MEMORY_ERROR"

\* Witness of C1: a call returned an outer success whose payload reports a failed script.
C1_Witness ==
  \E p \in DOMAIN procs :
    Done(p) /\ procs[p].result.success /\ ~procs[p].result.data.success
      /\ procs[p].api = "evaluateExpression"

\* C2 as stated: a run of a script that does not end within the effective timeout
\* returns a payload with success = FALSE whose error is a Timeout (code VM_TIMEOUT).
C2_TimeoutIsClassifiedAsTimeout ==
  \A p \in DOMAIN procs :
    (Done(p) /\ procs[p].result.success /\ Compile(procs[p].code).program = S_Loop)
      => /\ ~procs[p].result.data.success
         /\ procs[p].result.data.error.code = "VM_TIMEOUT"

LastOp == last[1]
LastId == last[2]
LastResult == last[3]

Ephemeral(p) == procs[p].api # "none" /\ ~Explicit(p)

C5_CreateOfLiveIdFails ==
  [][ (last'[1] = "create" /\ Has(contexts, last'[2]))
        => /\ last'[3] = failure(VMContextError(ExistsMessage(last'[2]), last'[2], 400, Undefined))
           /\ contexts' = contexts ]_vars

\* Witness of C5: a create of a live id was refused; the context it names has been used.
C5_Witness ==
  /\ LastOp = "create"
  /\ Has(contexts, LastId)
  /\ ~LastResult.success
  /\ LastResult.error.message = ExistsMessage(LastId)
  /\ Get(contexts, LastId).executionCount > 0

\* Call p takes this step: a slot that is not idle after a step was not cleared by it.
Acts(p) == procs'[p].pc # "idle" /\ (procs'[p].pc = "done" \/ procs'[p] # procs[p])

ReturnsNow(p) == procs'[p].pc = "done"

\* The value bound to `key` in the namespace of the live context `id`.
Binding(ctxs, id, key) == Prop(Get(ctxs, id).globals, key)

\* C6: a step of a run against context A leaves every other live context B as it is
\* (namespace bindings, execution count, last-used-at, and the rest of its record),
\* and a script that reads a global reads the binding of its own context: what a run
\* assigned in A is not what a later run in B reads.
C6_RunLeavesOtherContextsAlone ==
  [][ \A p \in DOMAIN procs :
        Acts(p) =>
          /\ \A i \in DOMAIN contexts :
               contexts[i].id # procs'[p].contextId
                 => i \in DOMAIN contexts' /\ contexts'[i] = contexts[i]
          /\ (procs[p].pc = "running" /\ procs[p].program = E_ReadVar)
               => procs'[p].settled.value = Binding(contexts, procs[p].contextId, "testVar") ]_vars

\* Witness of C6: a run read the global in its context and found it unbound, while
\* another live context has it bound by an earlier run.
C6_Witness ==
  \E p \in DOMAIN procs :
    /\ Done(p) /\ procs[p].result.success /\ procs[p].result.data.success
    /\ Compile(procs[p].code).program = E_ReadVar
    /\ procs[p].result.data.result = Undefined
    /\ \E i \in DOMAIN contexts :
         /\ contexts[i].id # procs[p].contextId
         /\ "testVar" \in DOMAIN contexts[i].globals

\* A step of a call that has not returned leaves every execution count as it is.
CountsFrame(p) ==
  (Acts(p) /\ ~ReturnsNow(p))
    => \A i \in DOMAIN contexts :
         i \in DOMAIN contexts' /\ contexts'[i].executionCount = contexts[i].executionCount

\* C7 as stated: every run against an explicit id of a live context increments the
\* execution count of that context by exactly one, whatever the outcome of the run,
\* any rejection included.
C7_EveryRunCounts ==
  [][ \A p \in DOMAIN procs :
        /\ CountsFrame(p)
        /\ (ReturnsNow(p) /\ "contextId" \in DOMAIN procs'[p].options
              /\ Has(contexts, procs'[p].contextId))
             => /\ Has(contexts', procs'[p].contextId)
                /\ Get(contexts', procs'[p].contextId).executionCount
                     = Get(contexts, procs'[p].contextId).executionCount + 1 ]_vars

\* C7 amended: a run against an explicit id of a live context that passes the memory
\* pre-check increments the execution count of that context by exactly one whatever
\* the outcome of the script (value, compile error, runtime error, timeout); a run the
\* memory pre-check rejects returns a failed outer Result and leaves the count as it is.
C7_AdmittedRunCounts ==
  [][ \A p \in DOMAIN procs :
        /\ CountsFrame(p)
        /\ (ReturnsNow(p) /\ "contextId" \in DOMAIN procs'[p].options
              /\ Has(contexts, procs'[p].contextId))
             => /\ Has(contexts', procs'[p].contextId)
                /\ Get(contexts', procs'[p].contextId).executionCount
                     = Get(contexts, procs'[p].contextId).executionCount
                         + (IF procs'[p].result.success THEN 1 ELSE 0)
                /\ ~procs'[p].result.success
                     => /\ procs'[p].result.error.code = "VM_MEMORY_ERROR"
                        /\ config.enableMemoryMonitoring ]_vars

\* Witness of C7: the second run against an explicit id failed inside the payload and
\* was counted.
C7_Witness ==
  \E p \in DOMAIN procs :
    /\ Done(p) /\ Explicit(p)
    /\ procs[p].result.success /\ ~procs[p].result.data.success
    /\ Has(contexts, procs[p].contextId)
    /\ Get(contexts, procs[p].contextId).executionCount = 2

\* The script of call p is about to assign `key` in the context `id`.
Assigns(p, id, key) ==
  /\ procs[p].pc = "running"
  /\ procs[p].contextId = id
  /\ procs[p].program = E_SetVar
  /\ key = "testVar"

\* C8: a global a run has set in the context of an explicit id is what every later
\* run against that id reads, as long as the context stays in the registry: the
\* assignment is stored in the context, every step that keeps the context keeps its
\* bindings (the console binding, which the capture replaces, apart), a read returns
\* the stored binding, and the value read is the result the call returns.
C8_GlobalsPersistAcrossRuns ==
  [][ /\ \A i \in DOMAIN contexts, j \in DOMAIN contexts' :
           contexts'[j].id = contexts[i].id
             => \A key \in DOMAIN contexts[i].globals \ {"console"} :
                  /\ key \in DOMAIN contexts'[j].globals
                  /\ \/ contexts'[j].globals[key] = contexts[i].globals[key]
                     \/ \E p \in DOMAIN procs : Assigns(p, contexts[i].id, key)
      /\ \A p \in DOMAIN procs :
           /\ Assigns(p, procs[p].contextId, "testVar")
                => Binding(contexts', procs[p].contextId, "testVar") = "'A'"
           /\ (procs[p].pc = "running" /\ procs[p].program = E_ReadVar)
                => /\ procs'[p].settled.state = "resolved"
                   /\ procs'[p].settled.value = Binding(contexts, procs[p].contextId, "testVar")
           /\ (procs[p].pc = "awaitExec" /\ procs[p].settled.state = "resolved" /\ ReturnsNow(p))
                => /\ procs'[p].result.success /\ procs'[p].result.data.success
                   /\ procs'[p].result.data.result = procs[p].settled.value ]_vars

\* Witness of C8: the third request on an explicit id read the global that an earlier
\* run on that id had set.
C8_Witness ==
  \E p \in DOMAIN procs :
    /\ Done(p) /\ Explicit(p)
    /\ Compile(procs[p].code).program = E_ReadVar
    /\ procs[p].result.success /\ procs[p].result.data.success
    /\ procs[p].result.data.result = "'A'"
    /\ Get(contexts, procs[p].contextId).executionCount = 2

C10_DestroyRemovesExactlyOne ==
  [][ /\ (last'[1] = "destroy" /\ Has(contexts, last'[2]))
           => /\ last'[3] = success(TRUE)
              /\ contexts' = SelectSeq(contexts, LAMBDA c : c.id # last'[2])
              /\ Len(contexts') = Len(contexts) - 1
      /\ (last'[1] \in {"get", "info", "destroy"} /\ ~Has(contexts, last'[2]))
           => /\ last'[3] = failure(VMContextError(NotFoundMessage(last'[2]), last'[2],
                                                   404, Undefined))
              /\ contexts' = contexts
      /\ last'[1] = "list"
           => {last'[3][i].id : i \in DOMAIN last'[3]} = {contexts[i].id : i \in DOMAIN contexts} ]_vars

\* Witness of C10: a destroy succeeded and left the other context in the registry.
C10_Witness ==
  /\ LastOp = "destroy"
  /\ LastResult.success
  /\ ~Has(contexts, LastId)
  /\ Len(contexts) = 1

\* The console calls the script of the returned call p made in its run.
CallsMade(p) ==
  runInContext(Compile(procs[p].code).program,
               Get(contexts, procs[p].contextId).globals).calls

\* C11 as stated: with console capture enabled, the console output of a successful run
\* holds one line for every console.log, console.error, console.warn and console.info
\* call the script made in that run, in the order of the calls, and nothing else.
C11_ConsoleOutputHasEveryCall ==
  \A p \in DOMAIN procs :
    (Done(p) /\ procs[p].result.success /\ procs[p].result.data.success
       /\ config.enableConsoleCapture)
      => procs[p].result.data.consoleOutput
           = [i \in 1..Len(CallsMade(p)) |-> formatConsoleArgs(CallsMade(p)[i][2])]

AllIds == UserIds \cup {GenId(i) : i \in 1..(maxContexts + 1)}

\* The live context `id` has not been used for longer than the idle threshold.
Idle(id) == Has(contexts, id) /\ now - Get(contexts, id).lastUsed > MAX_IDLE_TIME

\* C12: with the sweep timer firing again and again, a context that stays unused
\* beyond the idle threshold is eventually gone from the registry; a sweep removes
\* every context that is idle when it runs; and list and info leave the registry as
\* it is, so they do not postpone the eviction.
C12_IdleContextIsEvicted ==
  /\ \A id \in AllIds : Idle(id) ~> ~Idle(id)
  /\ [][ /\ last'[1] = "sweep"
              => \A i \in DOMAIN contexts :
                   now - contexts[i].lastUsed > MAX_IDLE_TIME => ~Has(contexts', contexts[i].id)
         /\ last'[1] \in {"list", "info"} => contexts' = contexts ]_vars

\* Witness of C12: a sweep has evicted an idle context and kept one that is in use.
C12_Witness ==
  /\ LastOp = "sweep"
  /\ Len(LastResult) = 1
  /\ ~Has(contexts, LastResult[1])
  /\ Len(contexts) = 1

\* The templates and the custom entries a context was created with.
SelectedTemplates(options) ==
  IF "globalTemplates" \in DOMAIN options THEN options.globalTemplates ELSE <<>>

CustomEntries(options) == IF "globals" \in DOMAIN options THEN options.globals ELSE <<>>

CustomKeys(options) == {CustomEntries(options)[i][1] : i \in DOMAIN CustomEntries(options)}

TemplateSuppliedKeys(options) ==
  UNION {TemplateKeys(SelectedTemplates(options)[i]) : i \in DOMAIN SelectedTemplates(options)}

\* The last element of `seq` that satisfies Test.
LastWith(seq, Test(_)) ==
  seq[CHOOSE i \in DOMAIN seq : Test(seq[i]) /\ \A j \in DOMAIN seq : Test(seq[j]) => j <= i]

\* C13: the namespace of the context a successful create stores has exactly the keys
\* of the selected templates and the keys of the custom globals; a key of a custom
\* global is bound to the custom value (custom globals win over templates), and any
\* other key is bound to what the last listed template that has it supplies.
C13_NamespaceIsUnionOfTemplatesAndCustom ==
  [][ (last'[1] = "create" /\ last'[3].success)
        => LET c == last'[3].data
               o == c.options
           IN /\ Has(contexts', last'[2]) /\ Get(contexts', last'[2]) = c
              /\ DOMAIN c.globals = TemplateSuppliedKeys(o) \cup CustomKeys(o)
              /\ \A k \in DOMAIN c.globals :
                   c.globals[k] =
                     IF k \in CustomKeys(o)
                       THEN LastWith(CustomEntries(o), LAMBDA e : e[1] = k)[2]
                       ELSE GLOBAL_TEMPLATES(
                              LastWith(SelectedTemplates(o),
                                       LAMBDA t : k \in TemplateKeys(t)))[k] ]_vars

\* Witness of C13: a context was created from two templates and a custom global that
\* has the name of a template's key; the custom value is the one bound.
C13_Witness ==
  /\ LastOp = "create" /\ LastResult.success
  /\ SelectedTemplates(LastResult.data.options) = <<"console", "timers">>
  /\ LastResult.data.globals["console"] = "mine"
  /\ "setTimeout" \in DOMAIN LastResult.data.globals
  /\ Get(contexts, LastId).globals = LastResult.data.globals

Denylist == {dangerousKeys[i] : i \in DOMAIN dangerousKeys}

\* The first denylisted key among the custom globals of `options`.
FirstDenylisted(options) ==
  SelectSeq(ObjectKeys(CustomEntries(options)), LAMBDA k : k \in Denylist)[1]

\* C14 as stated: a create with a custom global whose name is denylisted (for an id
\* that is not live, in a registry with room) fails with a SecurityViolation error
\* that names the offending key, and stores no context.
C14_DenylistedGlobalIsSecurityViolation ==
  [][ \A id \in RequestIds, options \in BuildOptions :
        (/\ CreateRequest(id, options)
         /\ CustomKeys(options) \cap Denylist # {}
         /\ ~Has(contexts, id)
         /\ Len(contexts) < maxContexts)
          => /\ ~last'[3].success
             /\ last'[3].error.code = "VM_SECURITY_ERROR"
             /\ Includes(last'[3].error.message, FirstDenylisted(options))
             /\ contexts' = contexts ]_vars

\* C15: in every reachable state, a denylisted key in the namespace of a live context
\* is a key of one of the templates the context was created with, bound to what that
\* template supplies, and the custom globals of the context name no denylisted key.
C15_DenylistedKeysOnlyFromTemplates ==
  \A i \in DOMAIN contexts :
    LET c == contexts[i]
    IN /\ CustomKeys(c.options) \cap Denylist = {}
       /\ \A k \in DOMAIN c.globals \cap Denylist :
            /\ k \in TemplateSuppliedKeys(c.options)
            /\ c.globals[k] =
                 GLOBAL_TEMPLATES(LastWith(SelectedTemplates(c.options),
                                           LAMBDA t : k \in TemplateKeys(t)))[k]

\* Witness of C15: a live context has process and Buffer from its templates and a
\* custom global next to them.
C15_Witness ==
  \E i \in DOMAIN contexts :
    /\ {"process", "Buffer"} \subseteq DOMAIN contexts[i].globals
    /\ "x" \in CustomKeys(contexts[i].options)

\* C16: the last-used-at of a live context is never earlier than its created-at, and
\* no step (get, info, list, any step of a run, sweep, or any other) makes the
\* last-used-at of a context that stays live smaller; the clock of the model never
\* goes back.
C16_LastUsedNeverDecreases ==
  /\ [](\A i \in DOMAIN contexts : contexts[i].lastUsed >= contexts[i].createdAt)
  /\ [][ /\ now' >= now
         /\ \A i \in DOMAIN contexts, j \in DOMAIN contexts' :
              contexts'[j].id = contexts[i].id
                => contexts'[j].lastUsed >= contexts[i].lastUsed ]_vars

\* Witness of C16: a get has moved the last-used-at of a context past its created-at.
C16_Witness ==
  /\ LastOp = "get" /\ LastResult.success
  /\ Get(contexts, LastId).lastUsed = MaxTime
  /\ Get(contexts, LastId).createdAt = 0
  /\ Get(contexts, LastId).executionCount > 0

\* C17: what list returns has one entry for each live context and no other entry, and
\* the last-used-at of an entry is greater than or equal to that of the entry after it.
C17_ListIsCompleteAndSorted ==
  LastOp = "list"
    => /\ Len(LastResult) = Len(contexts)
       /\ \A i \in DOMAIN contexts :
            Cardinality({j \in DOMAIN LastResult : LastResult[j].id = contexts[i].id}) = 1
       /\ \A j \in DOMAIN LastResult :
            /\ Has(contexts, LastResult[j].id)
            /\ LastResult[j].lastUsed = Get(contexts, LastResult[j].id).lastUsed
       /\ \A j \in 1..(Len(LastResult) - 1) :
            LastResult[j].lastUsed >= LastResult[j + 1].lastUsed

\* Witness of C17: list has returned two contexts, the one created later and used
\* later first.
C17_Witness ==
  /\ LastOp = "list"
  /\ Len(LastResult) = 2
  /\ LastResult[1].id = contexts[2].id
  /\ LastResult[1].lastUsed > LastResult[2].lastUsed

\* C18: every entry of list(includeDetails = false) has no global key names and empty
\* options, whatever its context was created with; every entry of
\* list(includeDetails = true) has the key names of its context's namespace and the
\* options the context was created with.
C18_ListDetails ==
  [][ \A includeDetails \in BOOLEAN :
        ListRequest(includeDetails)
          => \A j \in DOMAIN last'[3] :
               LET entry == last'[3][j]
                   context == Get(contexts, entry.id)
               IN IF includeDetails
                    THEN entry.globalKeys = DOMAIN context.globals
                           /\ entry.options = context.options
                    ELSE entry.globalKeys = {} /\ entry.options = EmptyGlobals ]_vars

\* Witness of C18: list has returned an entry without key names and options for a
\* context that has a namespace and was created with options.
C18_Witness ==
  /\ LastOp = "list"
  /\ \E j \in DOMAIN LastResult :
       /\ LastResult[j].globalKeys = {} /\ LastResult[j].options = EmptyGlobals
       /\ "testVar" \in DOMAIN Get(contexts, LastResult[j].id).globals
       /\ Get(contexts, LastResult[j].id).options # EmptyGlobals

\* The failure get returns for an id that is not live.
NotFound(id) == failure(VMContextError(NotFoundMessage(id), id, 404, Undefined))

\* The summary of a context: its record with the names of its globals in place of the
\* namespace.
Summary(c) ==
  [id |-> c.id, name |-> c.name, createdAt |-> c.createdAt, lastUsed |-> c.lastUsed,
   executionCount |-> c.executionCount, memoryUsage |-> c.memoryUsage,
   globalKeys |-> DOMAIN c.globals, options |-> c.options]

\* C19 as stated: info acts on the registry as get does: it fails with the "not found"
\* error for an id that is not live, and for a live id it sets the last-used-at of the
\* context to the present instant and returns the summary of the context.
C19_InfoTouchesLikeGet ==
  [][ last'[1] = "info"
        => IF Has(contexts, last'[2])
             THEN /\ last'[3].success
                  /\ Get(contexts', last'[2]).lastUsed = now
                  /\ contexts' = getContext(contexts, last'[2], now).contexts
             ELSE last'[3] = NotFound(last'[2]) /\ contexts' = contexts ]_vars

\* C19 amended: info fails with the "not found" error for an id that is not live, as
\* get does; for a live id it returns the summary of the context (the names of its
\* globals, not their values) and, unlike get, leaves the last-used-at of the context
\* and the rest of the registry as they are.
C19_InfoReadsOnly ==
  [][ last'[1] = "info"
        => /\ contexts' = contexts
           /\ IF Has(contexts, last'[2])
                THEN last'[3] = success(Summary(Get(contexts, last'[2])))
                ELSE last'[3] = NotFound(last'[2]) ]_vars

\* Witness of C19: info has returned the summary of a context that was last used
\* before the present instant, and the context still shows the earlier instant.
C19_Witness ==
  /\ LastOp = "info" /\ LastResult.success
  /\ LastResult.data.lastUsed < now
  /\ Get(contexts, LastId).lastUsed = LastResult.data.lastUsed
  /\ LastResult.data.globalKeys # {}

\* The text "(" + expression + ")".
Parenthesised(expression) == <<"(">> \o expression \o <<")">>

\* C20: whatever evaluate(e, o) does in a state, run("(" + e + ")", o) can do in that
\* state: the same registry afterwards and the same call record (context id, compiled
\* program, effective timeout, or the Result already returned), the name of the
\* method called apart.
C20_EvaluateIsRunOfParenthesised ==
  [][ \A p \in DOMAIN procs, input \in EvaluateInputs :
        evaluateExpression(p, input[1], input[2])
          => \E c \in {contexts'}, r \in {[procs'[p] EXCEPT !.api = "runScript"]} :
               ENABLED (/\ runScript(p, "runScript", Parenthesised(input[1]), input[2])
                        /\ contexts' = c
                        /\ procs'[p] = r) ]_vars

\* Witness of C20: evaluate of a statement has returned the compile error of the
\* parenthesised text.
C20_Witness ==
  \E p \in DOMAIN procs :
    /\ Done(p) /\ procs[p].api = "evaluateExpression"
    /\ procs[p].code = Parenthesised(S_Throw)
    /\ procs[p].result.success /\ ~procs[p].result.data.success
    /\ Includes(procs[p].result.data.error.message, "Unexpected")

\* The smaller of two numbers.
Least(a, b) == IF a < b THEN a ELSE b

\* C21: the timeout a run hands to the engine is min(requested, maxTimeout) when the
\* options carry a timeout and min(defaultTimeout, maxTimeout) when they carry none;
\* it never exceeds maxTimeout.
C21_AppliedTimeout ==
  \A p \in DOMAIN procs :
    procs[p].pc = "running"
      => /\ procs[p].timeout =
              (IF "timeout" \in DOMAIN procs[p].options
                 THEN Least(procs[p].options.timeout, maxTimeout)
                 ELSE Least(defaultTimeout, maxTimeout))
         /\ procs[p].timeout <= maxTimeout

\* Witness of C21: a script is running under a requested timeout above the maximum,
\* cut down to the maximum.
C21_Witness ==
  \E p \in DOMAIN procs :
    /\ procs[p].pc = "running"
    /\ "timeout" \in DOMAIN procs[p].options
    /\ procs[p].options.timeout > maxTimeout
    /\ procs[p].timeout = maxTimeout
    /\ procs[p].timeout # defaultTimeout

\* Call p returns at this step with the failed outer Result of the memory pre-check.
MemoryRejected(p) ==
  /\ ReturnsNow(p)
  /\ ~procs'[p].result.success
  /\ procs'[p].result.error.code = "VM_MEMORY_ERROR"

\* C22: the memory pre-check fails exactly for a heap sample above maxMemoryMB taken
\* with memory monitoring enabled; a run is rejected by it only in that case, and then the script was never
\* handed to the engine, the namespace of the context has no new console shim and
\* the execution count is as it was; a run whose context resolves with monitoring
\* disabled is never rejected.
C22_MemoryPreCheck ==
  /\ [](\A h \in HeapSamples :
          checkMemoryUsage(config, h).success
            <=> ~(config.enableMemoryMonitoring /\ h > maxMemoryMB))
  /\ [][ \A p \in DOMAIN procs :
           /\ MemoryRejected(p)
                   => /\ config.enableMemoryMonitoring
                      /\ \E h \in HeapSamples :
                           /\ h > maxMemoryMB
                           /\ procs'[p].result.error.details = ToString(h)
                      /\ procs[p].pc \notin {"running", "awaitExec"}
                      /\ Has(contexts, procs'[p].contextId)
                      /\ Has(contexts', procs'[p].contextId)
                      /\ Get(contexts', procs'[p].contextId).globals
                           = Get(contexts, procs'[p].contextId).globals
                      /\ Get(contexts', procs'[p].contextId).executionCount
                           = Get(contexts, procs'[p].contextId).executionCount
           /\ (ReturnsNow(p) /\ ~config.enableMemoryMonitoring
                    /\ Has(contexts, procs'[p].contextId))
                   => procs'[p].result.success ]_vars

\* Witness of C22: with console capture and memory monitoring enabled, a run against
\* a context was rejected by the pre-check, and the console of the context is the
\* template's own, not a shim.
C22_Witness ==
  \E p \in DOMAIN procs :
    /\ Done(p) /\ ~procs[p].result.success
    /\ procs[p].result.error.code = "VM_MEMORY_ERROR"
    /\ config.enableConsoleCapture /\ config.enableMemoryMonitoring
    /\ Has(contexts, procs[p].contextId)
    /\ Binding(contexts, procs[p].contextId, "console") = GLOBAL_TEMPLATES("console")["console"]

\* The id of the context the call returning at this step has used: the one its
\* options name, or the one generated for it.
UsedContext(p) ==
  IF "contextId" \in DOMAIN procs'[p].options
    THEN procs'[p].options.contextId
    ELSE procs[p].contextId

\* C23: the payload a run returns carries the id of the context it used; a payload
\* with success = TRUE carries the completion value of the script, an execution time
\* >= 0, console lines exactly when console capture is enabled, a heap sample exactly
\* when memory monitoring is enabled, and no error; a payload with success = FALSE
\* carries an error and no completion value.
C23_PayloadWellFormed ==
  [][ \A p \in DOMAIN procs :
        (ReturnsNow(p) /\ procs'[p].result.success)
          => LET d == procs'[p].result.data
             IN /\ d.contextId = UsedContext(p)
                /\ Has(contexts', d.contextId)
                /\ d.executionTime = (IF procs[p].pc \in {"awaitCreate", "awaitExec"}
                                        THEN now - procs[p].startTime ELSE 0)
                /\ d.executionTime >= 0
                /\ d.success
                     => /\ procs[p].pc = "awaitExec"
                        /\ procs[p].settled.state = "resolved"
                        /\ d.result = procs[p].settled.value
                        /\ d.hasConsoleOutput <=> config.enableConsoleCapture
                        /\ ~d.hasConsoleOutput => d.consoleOutput = <<>>
                        /\ (d.memoryUsage # -1) <=> config.enableMemoryMonitoring
                        /\ d.error = NoError
                /\ ~d.success
                     => /\ d.error # NoError
                        /\ d.error.code \in ExecutionCodes
                        /\ d.result = Undefined ]_vars

\* Witness of C23: with console capture enabled and memory monitoring disabled, a run
\* returned a value, its console lines and no heap sample.
C23_Witness ==
  \E p \in DOMAIN procs :
    /\ Done(p) /\ procs[p].result.success /\ procs[p].result.data.success
    /\ config.enableConsoleCapture /\ ~config.enableMemoryMonitoring
    /\ procs[p].result.data.hasConsoleOutput
    /\ procs[p].result.data.consoleOutput # <<>>
    /\ procs[p].result.data.memoryUsage = -1
    /\ procs[p].result.data.executionTime >= 0

\* The script of call p failed to compile, or ran and threw.
ScriptFailed(p) ==
  \/ ~Compile(procs[p].code).ok
  \/ Compile(procs[p].code).program \in {S_Throw, S_ThrowWord}

\* C24 as stated: every failure of a script is given one of the kinds of the
\* taxonomy, and a compile error or an error thrown by the script is an
\* ExecutionFailure (code VM_EXECUTION_ERROR) whatever words its message contains.
C24_ScriptErrorIsExecutionFailure ==
  \A p \in DOMAIN procs :
    (Done(p) /\ procs[p].result.success /\ ~procs[p].result.data.success)
      => /\ procs[p].result.data.error.code \in ExecutionCodes
         /\ ScriptFailed(p) => procs[p].result.data.error.code = "VM_EXECUTION_ERROR"

\* The patterns of the scan that match `code`, as indices of the array.
Matching(code) ==
  {i \in DOMAIN dangerousPatterns : PatternTest(dangerousPatterns[i], code)}

\* The source text of the first pattern, in the order of the array, that matches.
FirstMatch(code) ==
  dangerousPatterns[CHOOSE i \in Matching(code) : \A j \in Matching(code) : i <= j].source

\* `code` without its shebang line.
Stripped(code) ==
  IF code # <<>> /\ Head(code) = "#!" THEN AfterFirstLine(code) ELSE code

\* C25: runScriptSafe on code that matches a dangerous pattern returns at once a
\* payload with success = FALSE whose error is a SecurityViolation naming the first
\* pattern, in the order of the array, that matches; the registry is left as it is
\* (no context created or touched, no execution count changed) and nothing is run.
\* On code that matches no pattern it does what run does on the code without its
\* shebang line: the same registry afterwards and the same call record.
C25_ScanRejectsFirstMatch ==
  [][ \A p \in DOMAIN procs, input \in ScanInputs :
        runScriptSafe(p, input[1], input[2])
          => IF Matching(input[1]) # {}
               THEN /\ procs'[p].pc = "done"
                    /\ procs'[p].result.success
                    /\ ~procs'[p].result.data.success
                    /\ procs'[p].result.data.error.code = "VM_SECURITY_ERROR"
                    /\ procs'[p].result.data.error.message
                         = DangerousMessage(FirstMatch(input[1]))
                    /\ procs'[p].result.data.error.details = FirstMatch(input[1])
                    /\ procs'[p].result.data.executionTime = 0
                    /\ contexts' = contexts
               ELSE \E c \in {contexts'},
                       r \in {[procs'[p] EXCEPT !.api = "runScript",
                                                !.code = Stripped(input[1])]} :
                      ENABLED (/\ runScript(p, "runScript", Stripped(input[1]), input[2])
                               /\ contexts' = c
                               /\ procs'[p] = r) ]_vars

\* Witness of C25: a call naming a live context was rejected for code that matches
\* two patterns, with the one that comes first in the array; the context has not
\* been touched since it was created.
C25_Witness ==
  \E p \in DOMAIN procs :
    /\ Done(p) /\ procs[p].api = "runScriptSafe" /\ Explicit(p)
    /\ procs[p].code = E_EvalRequire
    /\ procs[p].result.data.error.details = dangerousPatterns[1].source
    /\ Has(contexts, procs[p].options.contextId)
    /\ Get(contexts, procs[p].options.contextId).lastUsed < now
    /\ Get(contexts, procs[p].options.contextId).executionCount = 0

\* The other half: a script with a shebang line went through the
\* scan and returned its value.
ShebangRuns ==
  \E p \in DOMAIN procs :
    /\ Done(p) /\ procs[p].api = "runScriptSafe"
    /\ procs[p].code = preprocessCode(S_Shebang)
    /\ procs[p].result.success /\ procs[p].result.data.success
    /\ procs[p].result.data.result = "4"

\* The payload of call p is the rejection of the text-pattern scan.
ScanRejection(p) ==
  /\ procs[p].result.success /\ ~procs[p].result.data.success
  /\ Includes(procs[p].result.data.error.message, "dangerous")

RequireFails ==
  \E p \in DOMAIN procs :
    /\ Done(p) /\ procs[p].api = "runScript" /\ procs[p].code = E_Require
    /\ Matching(procs[p].code) # {}
    /\ procs[p].result.success /\ ~procs[p].result.data.success
    /\ procs[p].result.data.error.code = "VM_EXECUTION_ERROR"

\* Call p is started at this step by a run whose options carry a context id.
StartsWithId(p) ==
  /\ procs[p].pc \in {"idle", "done"}
  /\ Acts(p)
  /\ "contextId" \in DOMAIN procs'[p].options

\* A step of a run of call p has added a context to the registry.
RunCreates(p) == Acts(p) /\ Len(contexts') > Len(contexts)

\* C27 as stated: a run whose options carry a context id that is not live returns the
\* not-found error (code VM_CONTEXT_ERROR) and creates no context; a run creates a
\* context only when its options carry no id.
C27_OnlyOmittedIdCreates ==
  [][ \A p \in DOMAIN procs :
        /\ (StartsWithId(p) /\ ~Has(contexts, procs'[p].options.contextId))
             => /\ procs'[p].pc = "done"
                /\ procs'[p].result = NotFound(procs'[p].options.contextId)
                /\ procs'[p].result.error.code = "VM_CONTEXT_ERROR"
                /\ contexts' = contexts
        /\ RunCreates(p) => "contextId" \notin DOMAIN procs'[p].options ]_vars

\* C27 amended: a run whose options carry a non-empty context id that is not live
\* returns the not-found error (code VM_CONTEXT_ERROR) and leaves the registry as it
\* is; no run creates a context under the id its options carry; a run creates a
\* context, under a generated id, only when its options carry no id or the empty
\* string.
C27_NonEmptyIdNeverCreates ==
  [][ \A p \in DOMAIN procs :
        /\ (StartsWithId(p) /\ procs'[p].options.contextId # ""
              /\ ~Has(contexts, procs'[p].options.contextId))
             => /\ procs'[p].pc = "done"
                /\ procs'[p].result = NotFound(procs'[p].options.contextId)
                /\ procs'[p].result.error.code = "VM_CONTEXT_ERROR"
                /\ contexts' = contexts
        /\ (StartsWithId(p) /\ ~Has(contexts, procs'[p].options.contextId))
             => ~Has(contexts', procs'[p].options.contextId)
        /\ RunCreates(p)
             => /\ Prop(procs'[p].options, "contextId") \in {Undefined, ""}
                /\ contexts' = Append(contexts, contexts'[Len(contexts')])
                /\ contexts'[Len(contexts')].id = procs'[p].contextId
                /\ procs'[p].contextId \notin {Undefined, ""} ]_vars

\* Witness of C27: a run naming a context that has been destroyed returned the
\* not-found error while the registry holds no context of that id.
C27_Witness ==
  \E p \in DOMAIN procs :
    /\ Done(p) /\ Explicit(p) /\ procs[p].options.contextId # ""
    /\ ~procs[p].result.success
    /\ procs[p].result = NotFound(procs[p].options.contextId)
    /\ ~Has(contexts, procs[p].options.contextId)
    /\ now > 0

\* Call p is started at this step by a run without an id: an id is generated and the
\* context is created under it.
StartsEphemeral(p) ==
  /\ procs[p].pc \in {"idle", "done"}
  /\ procs'[p].pc = "awaitCreate"

\* C28: generateContextId returns an id that is not live when it returns, and the
\* create a run performs with the id generated for it never fails with the "already
\* exists" error, whatever other calls are in flight and whatever the clients have
\* created: it succeeds, or fails because the registry is full.
C28_GeneratedIdIsFresh ==
  /\ [](\A id \in generateContextId(contexts) : ~Has(contexts, id))
  /\ [][ \A p \in DOMAIN procs :
           StartsEphemeral(p)
             => /\ procs'[p].contextId \in generateContextId(contexts)
                /\ ~Has(contexts, procs'[p].contextId)
                /\ IF procs'[p].created.success
                     THEN contexts' = Append(contexts, procs'[p].created.data)
                     ELSE /\ procs'[p].created.error.message = LimitMessage
                          /\ Len(contexts) >= maxContexts
                          /\ contexts' = contexts ]_vars

\* Witness of C28: while one call is suspended and a client's context holds the first
\* id of the generated form, a second call was given another id and its context.
C28_Witness ==
  \E p \in DOMAIN procs, q \in DOMAIN procs :
    /\ p # q
    /\ procs[q].pc = "awaitExec"
    /\ procs[p].pc = "awaitCreate" /\ procs[p].created.success
    /\ procs[p].contextId # GenId(1)
    /\ Has(contexts, GenId(1))
    /\ Has(contexts, procs[p].contextId)

\* The script of call p has run up to the deadline of the call without ending.
DeadlineReached(p) ==
  /\ procs[p].pc = "running"
  /\ procs[p].settled.state = "pending"
  /\ procs[p].elapsed >= procs[p].timeout

\* The callback of the deadline timer cannot run in any reachable state: the timer is
\* armed only while the script occupies the single flow of control, and it is cleared
\* in the step that ends the script.
DeadlineCallbackNeverRuns ==
  \A p \in DOMAIN procs :
    /\ ~ENABLED timeoutCallback(p)
    /\ procs[p].timer = "armed" <=> procs[p].pc = "running"
    /\ procs[p].timer # "fired"

\* C29 as stated: the promise of executeWithTimeout is settled once, by whichever of
\* the script and the deadline task comes first; when the script has not ended by the
\* deadline the promise is rejected with the deadline task's Timeout; once the script
\* has ended the timer is cleared and the promise keeps its outcome.
C29_DeadlineTaskReportsTimeout ==
  [][ \A p \in DOMAIN procs :
        /\ (procs[p].pc = "awaitExec" /\ procs'[p].pc = "awaitExec")
             => /\ procs'[p].settled = procs[p].settled
                /\ procs'[p].timer = "cleared"
        /\ (DeadlineReached(p) /\ Acts(p))
             => /\ procs'[p].settled.state = "rejected"
                /\ procs'[p].settled.thrown.vmTimeout ]_vars

\* The parts of C29 that hold: the promise is settled exactly once, in the step that
\* ends the script, the timer is cleared in that step, and a settled promise keeps
\* its outcome until the call returns.
SettlesOnce ==
  [][ \A p \in DOMAIN procs :
        /\ procs[p].settled.state # "pending" /\ procs'[p].pc # "idle" /\ ~ReturnsNow(p)
             => procs'[p].settled = procs[p].settled
        /\ (procs[p].settled.state = "pending" /\ procs'[p].settled.state # "pending")
             => /\ procs[p].pc = "running"
                /\ procs'[p].pc = "awaitExec"
                /\ procs'[p].timer = "cleared" ]_vars

\* The calls whose script is running or has run in context `id` and which have not
\* returned yet.
InFlight(ps, id) ==
  {p \in DOMAIN ps : ps[p].pc \in {"running", "awaitExec"} /\ ps[p].contextId = id}

\* The execution count of the live context `id` once the calls in flight in it have
\* returned, if each of them is counted once.
Owed(ctxs, ps, id) == Get(ctxs, id).executionCount + Cardinality(InFlight(ps, id))

\* Call p is admitted to context `id` at this step: its context is resolved and the
\* memory pre-check passed, so that its script is compiled.
Admitted(p, id) ==
  /\ procs[p].pc \in {"idle", "done", "awaitCreate"}
  /\ procs'[p].contextId = id
  /\ \/ procs'[p].pc = "running"
     \/ procs'[p].pc = "done" /\ procs'[p].result.success

\* C30: when several run calls against one live context are in flight together and
\* their continuations are run in any order, no usage update is lost: each return of
\* a call whose script has run adds exactly one to the execution count of its
\* context and leaves the other counts alone, so that the count plus the number of
\* calls in flight changes only when a call is admitted, by one; after N calls in
\* flight have returned the count is its value before plus N.
C30_NoUsageUpdateLost ==
  [][ /\ \A i \in DOMAIN contexts :
           Has(contexts', contexts[i].id)
             => Owed(contexts', procs', contexts[i].id)
                  = Owed(contexts, procs, contexts[i].id)
                      + Cardinality({p \in DOMAIN procs : Admitted(p, contexts[i].id)})
      /\ \A p \in DOMAIN procs :
           (procs[p].pc = "awaitExec" /\ ReturnsNow(p) /\ Has(contexts, procs[p].contextId))
             => /\ Has(contexts', procs[p].contextId)
                /\ Get(contexts', procs[p].contextId).executionCount
                     = Get(contexts, procs[p].contextId).executionCount + 1
                /\ \A i \in DOMAIN contexts :
                     contexts[i].id # procs[p].contextId
                       => contexts'[i].executionCount = contexts[i].executionCount ]_vars

\* Witness of C30: two calls were in flight in the same context, which had been run
\* in once before; one of them has returned and the other has not, and the count is
\* two.
C30_Witness ==
  \E p \in DOMAIN procs, q \in DOMAIN procs :
    /\ p # q
    /\ Done(p) /\ Explicit(p) /\ procs[p].result.success
    /\ procs[p].code = S_Throw
    /\ procs[q].pc = "awaitExec" /\ procs[q].contextId = procs[p].contextId
    /\ procs[q].code = E_Add
    /\ Has(contexts, procs[p].contextId)
    /\ Get(contexts, procs[p].contextId).executionCount = 2

\* The context call p has run its script in was destroyed while the call was
\* suspended, and is not live.
Gone(p) ==
  /\ procs[p].pc = "awaitExec"
  /\ ~Has(contexts, procs[p].contextId)

\* The context call p has run its script in was destroyed while the call was
\* suspended, and a client has just created another one under the same id.
Replaced(p) ==
  /\ procs[p].pc = "awaitExec"
  /\ LastOp = "create" /\ LastId = procs[p].contextId /\ LastResult.success

\* C31 as stated: when the context of a suspended run has been removed from the
\* registry, the run still returns a payload carrying the id of that context, and its
\* usage update does nothing: the registry is as it was, the removed context is not
\* put back and the counters of no other context change.
C31_UsageUpdateAfterRemovalIsNoOp ==
  [][ \A p \in DOMAIN procs :
        ((Gone(p) \/ Replaced(p)) /\ ReturnsNow(p))
          => /\ procs'[p].result.success
             /\ procs'[p].result.data.contextId = procs[p].contextId
             /\ contexts' = contexts ]_vars

\* What holds of C31: as long as no context has been created under the id again, the
\* run returns a payload carrying the id and the registry is left as it is.
UsageUpdateOfGoneContextIsNoOp ==
  [][ \A p \in DOMAIN procs :
        (Gone(p) /\ ReturnsNow(p))
          => /\ procs'[p].result.success
             /\ procs'[p].result.data.contextId = procs[p].contextId
             /\ contexts' = contexts ]_vars

\* Reachable: a run has returned the value of its script although its context was
\* destroyed while it was suspended.
ReturnedAfterDestroy ==
  \E p \in DOMAIN procs :
    /\ Done(p) /\ Explicit(p) /\ procs[p].result.success /\ procs[p].result.data.success
    /\ ~Has(contexts, procs[p].contextId)

\* The idle time of a context at the current instant.
IdleTime(c) == now - c.lastUsed

\* C32: a run of the sweep removes exactly the contexts whose idle time is strictly
\* greater than the threshold and leaves every other context as it is, record and
\* position; a create, a get and a run set last-used-at to the current instant, so a
\* context created, fetched or run against within the threshold is not removed.
C32_SweepIsExact ==
  [][ /\ last'[1] = "sweep"
           => /\ \A i \in DOMAIN contexts :
                   IF IdleTime(contexts[i]) > MAX_IDLE_TIME
                     THEN ~Has(contexts', contexts[i].id)
                     ELSE /\ Has(contexts', contexts[i].id)
                          /\ Get(contexts', contexts[i].id) = contexts[i]
              /\ \A j \in DOMAIN contexts' : \E i \in DOMAIN contexts : contexts[i] = contexts'[j]
              /\ \A j \in DOMAIN contexts', k \in DOMAIN contexts' :
                   j < k => IndexOf(contexts, contexts'[j].id) < IndexOf(contexts, contexts'[k].id)
      /\ (last'[1] \in {"create", "get"} /\ last'[3].success)
           => Get(contexts', last'[2]).lastUsed = now
      /\ \A p \in DOMAIN procs :
           (ReturnsNow(p) /\ procs'[p].result.success)
             => Get(contexts', procs'[p].contextId).lastUsed = now ]_vars

\* Witness of C32: a sweep has removed a context and kept one that has been idle for
\* exactly the threshold and has been run in.
C32_Witness ==
  /\ LastOp = "sweep"
  /\ Len(LastResult) = 1
  /\ \E i \in DOMAIN contexts :
       /\ IdleTime(contexts[i]) = MAX_IDLE_TIME
       /\ contexts[i].executionCount > 0


\* The console object a context gets from the "console" template.
OriginalConsole == GLOBAL_TEMPLATES("console")["console"]

\* C33: when a run has returned, the console binding of its context is the original
\* console again, as it was before the run.
C33_ConsoleIsRestored ==
  [][ \A p \in DOMAIN procs :
        ( /\ ReturnsNow(p)
          /\ Has(contexts', procs'[p].contextId)
          /\ "console" \in DOMAIN Get(contexts', procs'[p].contextId).globals )
          => Binding(contexts', procs'[p].contextId, "console") = OriginalConsole ]_vars

\* Two runs against one context have left a capture shim around a capture shim.
NestedShims ==
  \E i \in DOMAIN contexts :
    /\ "console" \in DOMAIN contexts[i].globals
    /\ contexts[i].globals["console"] = Shim(Shim(OriginalConsole))

\* Without console capture no run changes the console binding of a context.
ConsoleUntouchedWithoutCapture ==
  (~config.enableConsoleCapture)
    => \A i \in DOMAIN contexts :
         "console" \in DOMAIN contexts[i].globals
           => contexts[i].globals["console"] = OriginalConsole


\* C34: get(id) on a live context sets its last-used-at to the current instant and
\* changes nothing else, in that context or in any other; get on an id that is not
\* live fails with ContextNotFound and changes nothing.
C34_GetTouchesOnlyLastUsed ==
  [][ last'[1] = "get"
        => IF Has(contexts, last'[2])
             THEN /\ last'[3].success
                  /\ last'[3].data = Get(contexts', last'[2])
                  /\ DOMAIN contexts' = DOMAIN contexts
                  /\ \A i \in DOMAIN contexts :
                       IF contexts[i].id = last'[2]
                         THEN /\ contexts'[i].lastUsed = now
                              /\ [contexts'[i] EXCEPT !.lastUsed = contexts[i].lastUsed]
                                   = contexts[i]
                         ELSE contexts'[i] = contexts[i]
             ELSE /\ last'[3] = NotFound(last'[2])
                  /\ contexts' = contexts ]_vars

\* Witness of C34: a get has moved the last-used-at of a context that has been run
\* in, past its creation instant, while another context is live.
C34_Witness ==
  /\ LastOp = "get"
  /\ LastResult.success
  /\ LastResult.data.executionCount > 0
  /\ LastResult.data.lastUsed = now
  /\ LastResult.data.createdAt < now
  /\ Len(contexts) = 2

\* A get of an id that is not live has failed while a context is live.
GetNotFound ==
  /\ LastOp = "get"
  /\ ~LastResult.success
  /\ Len(contexts) > 0


\* The calls that apply their usage update to context `id` in this step: a call
\* returns a payload, of a script that ran or failed, for that context.
UsageUpdates(id) ==
  {p \in DOMAIN procs :
     ReturnsNow(p) /\ procs'[p].result.success /\ procs'[p].contextId = id}

\* C35: a context enters the registry with execution count zero and with created-at
\* and last-used-at at the instant of its creation; as long as it is live its created-at
\* stays, and its execution count changes only by one for each usage update applied to
\* it, so it never decreases and equals the number of usage updates since creation.
C35_CountIsNumberOfUsageUpdates ==
  [][ /\ \A j \in DOMAIN contexts' :
           ~Has(contexts, contexts'[j].id)
             => /\ contexts'[j].executionCount = 0
                /\ contexts'[j].createdAt = now
                /\ contexts'[j].lastUsed = now
      /\ (last'[1] = "create" /\ last'[3].success)
           => /\ ~Has(contexts, last'[2])
              /\ Get(contexts', last'[2]) = last'[3].data
      /\ \A i \in DOMAIN contexts :
           Has(contexts', contexts[i].id)
             => LET after == Get(contexts', contexts[i].id)
                IN /\ after.createdAt = contexts[i].createdAt
                   /\ after.executionCount
                        = contexts[i].executionCount + Cardinality(UsageUpdates(contexts[i].id)) ]_vars

\* Witness of C35: a context created after the start has been run in as often as the
\* bound allows, and a run against it has just returned.
C35_Witness ==
  \E p \in DOMAIN procs :
    /\ Done(p) /\ procs[p].result.success
    /\ Has(contexts, procs[p].contextId)
    /\ Get(contexts, procs[p].contextId).executionCount = MaxExec
    /\ Get(contexts, procs[p].contextId).createdAt > 0
    /\ Get(contexts, procs[p].contextId).lastUsed > Get(contexts, procs[p].contextId).createdAt


\* The ids of the live contexts.
LiveIds(ctxs) == {ctxs[i].id : i \in DOMAIN ctxs}

\* The execution count of every live context, by id.
ExecutionCounts(ctxs) == [id \in LiveIds(ctxs) |-> Get(ctxs, id).executionCount]

\* Call p returns a failed Result in this step: it was rejected before its script ran.
RejectedNow(p) == ReturnsNow(p) /\ ~procs'[p].result.success

\* Call p was given no context id and the context it created for itself is live when
\* it returns.
LeftBehind(p) ==
  /\ Falsy(Prop(procs'[p].options, "contextId"))
  /\ Has(contexts', procs'[p].contextId)

\* The steps of a rejected call leave the ids of the live contexts and their
\* execution counts as they are: the step of the failed create of an ephemeral
\* context, and the step of the return.
RejectedFrame(p) ==
  /\ (Acts(p) /\ procs'[p].pc = "awaitCreate" /\ ~procs'[p].created.success)
       => contexts' = contexts
  /\ RejectedNow(p)
       => /\ LiveIds(contexts') = LiveIds(contexts)
          /\ ExecutionCounts(contexts') = ExecutionCounts(contexts)
          /\ procs'[p].result.error.code \in {"VM_CONTEXT_ERROR", "VM_MEMORY_ERROR"}

\* C36 as stated: a run that is rejected before its script executes (id not live,
\* registry at capacity for an ephemeral context, memory pre-check failed) leaves the
\* set of live contexts and every execution count as they were when it was called.
C36_RejectedRunChangesNothing ==
  [][ \A p \in DOMAIN procs :
        /\ RejectedFrame(p)
        /\ RejectedNow(p) => ~LeftBehind(p) ]_vars

\* C36 amended: a rejected run leaves every execution count unchanged, and the set of
\* live contexts unchanged unless it was given no context id and was rejected by the
\* memory pre-check: that run has created its ephemeral context before the pre-check,
\* and the context stays live, with execution count zero.
C36_RejectedRunKeepsEphemeral ==
  [][ \A p \in DOMAIN procs :
        /\ RejectedFrame(p)
        /\ RejectedNow(p)
             => /\ LeftBehind(p)
                     <=> /\ Falsy(Prop(procs'[p].options, "contextId"))
                         /\ procs'[p].result.error.code = "VM_MEMORY_ERROR"
                /\ LeftBehind(p)
                     => /\ procs[p].pc = "awaitCreate"
                        /\ Get(contexts', procs'[p].contextId).executionCount = 0 ]_vars

\* Witness of C36: a run without a context id has been rejected by the memory
\* pre-check, and the context it created is live beside another one.
C36_Witness ==
  \E p \in DOMAIN procs :
    /\ Done(p) /\ ~procs[p].result.success
    /\ procs[p].result.error.code = "VM_MEMORY_ERROR"
    /\ ~Explicit(p)
    /\ Has(contexts, procs[p].contextId)
    /\ Len(contexts) = 2

\* A run without a context id has been rejected because the registry is full.
RejectedAtCapacity ==
  \E p \in DOMAIN procs :
    /\ Done(p) /\ ~procs[p].result.success
    /\ ~Explicit(p)
    /\ procs[p].result.error.message = LimitMessage
    /\ Len(contexts) = maxContexts


\* The machine-readable kind of an error: its class name and its code.
Kind(error) == <<error.name, error.code>>

\* C37 as stated: the failure of a create of a live id, of a create at capacity and of
\* a get, info or destroy of an id that is not live carry three different kinds.
C37_FailuresHaveDistinctKinds ==
  \A live \in LiveIds(contexts), missing \in AllIds \ LiveIds(contexts) :
    AtCapacity(contexts)
      => LET exists == createContext(contexts, live, NoOptions, now).result.error
             limit == createContext(contexts, missing, NoOptions, now).result.error
             notFound == {getContext(contexts, missing, now).result.error,
                          getContextInfo(contexts, missing).error,
                          destroyContext(contexts, missing).result.error}
         IN /\ Kind(exists) # Kind(limit)
            /\ \A e \in notFound : Kind(e) # Kind(exists) /\ Kind(e) # Kind(limit)

\* The request answered in this step is a create, get, info or destroy that failed.
ManagementFails == last'[1] \in {"create", "get", "info", "destroy"} /\ ~last'[3].success

\* C37 amended: every failure of context management is a VMContextError with the one
\* code VM_CONTEXT_ERROR and the id of the request.  A get, info or destroy of an id
\* that is not live carries status 404; a create of a live id and a create at capacity
\* both carry status 400 and differ in their message only.
C37_FailuresShareKind ==
  [][ ManagementFails
        => LET error == last'[3].error
               id == last'[2]
           IN /\ Kind(error) = <<"VMContextError", "VM_CONTEXT_ERROR">>
              /\ error.contextId = id
              /\ contexts' = contexts
              /\ IF last'[1] # "create"
                   THEN /\ ~Has(contexts, id)
                        /\ error.statusCode = 404
                        /\ error.message = <<"Context", id, "not", "found">>
                 ELSE IF Has(contexts, id)
                   THEN /\ error.statusCode = 400
                        /\ error.message = <<"Context", id, "already", "exists">>
                 ELSE IF Len(contexts) >= maxContexts
                   THEN /\ error.statusCode = 400
                        /\ Includes(error.message, "Maximum")
                        /\ ~Includes(error.message, "exists")
                 ELSE error.statusCode = 500 ]_vars

\* Witness of C37: a destroy of an id that is not live has failed with status 404
\* while the registry is full, where a create of that id fails with status 400.
C37_Witness ==
  /\ LastOp = "destroy"
  /\ ~LastResult.success
  /\ LastResult.error.statusCode = 404
  /\ Kind(LastResult.error) = <<"VMContextError", "VM_CONTEXT_ERROR">>
  /\ AtCapacity(contexts)
  /\ ~createContext(contexts, LastId, NoOptions, now).result.success

====
